---- MODULE Spec2Model ----
(***************************************************************************)
(* Uplink statistics collector (uplinks_stats.py, arista_uplinks_stats.py) *)
(*                                                                         *)
(* The layers of the program are modelled one by one, each with its own    *)
(* specification over its own group of variables:                          *)
(*                                                                         *)
(*   Spec         the fleet run of main(): ThreadPoolExecutor, the workers *)
(*                process_one_device_stats and the as_completed loop       *)
(*   SpecSession  one worker's SSH session and command pipeline            *)
(*                (get_arista_uplink_stats / get_juniper_uplink_stats)     *)
(*   SpecChannel  the byte stream of one session: the device's chunked     *)
(*                output and read_until_json_and_prompt                    *)
(*   SpecLogin    the login handshake of one session (read_until)          *)
(*   SpecJson     extract_json applied to the texts of a bounded alphabet  *)
(*   SpecPrompt   read_until_prompt and _looks_like_cli_prompt over the    *)
(*                chunked output of one command                            *)
(*   SpecXml      _extract_all_xml_interface_information_blocks applied to *)
(*                bounded sequences of tags                                *)
(*   SpecListing  the bootstrap listing of one device, the candidates the  *)
(*                pipeline keeps of it and the loop over them              *)
(*   SpecKind     the choice of the dialect in two sessions for devices of *)
(*                one platform name (get_ssh_uplinks,                      *)
(*                process_one_device_stats)                                *)
(*   SpecProgress progress_print and its lock, called by the pool threads  *)
(*                and by main                                              *)
(*   SpecClock    the pool against the clock: devices of equal duration    *)
(*   SpecMerge    --merge-into FILE: load, merge and write back            *)
(*   SpecFallback the Juniper listing step: JSON listing, XML fallback and *)
(*                its progress lines                                       *)
(*   SpecParsers  parse_juniper_uplinks and parse_juniper_uplinks_from_xml *)
(*                on two renderings of one interface table                 *)
(*   SpecRows     the row loop of get_juniper_uplink_stats: aggregate and  *)
(*                member rows                                              *)
(*   SpecReport   report mode: _run_report and process_one_device          *)
(*   SpecCliName  arista_cli_interface_name and the commands that use it   *)
(***************************************************************************)
EXTENDS Integers, Sequences, FiniteSets, TLC

(***************************************************************************)
(* Bounds of the model                                                     *)
(***************************************************************************)
\* devices NetBox can return for the tag; their names are 1..MaxDevices
MaxDevices == 3
\* largest value of the PARALLEL_DEVICES environment variable tried
MaxParallel == 2
\* longest record list a worker returns in the fleet model
MaxRecords == 1
\* interfaces an Arista device may list; their names are 1..MaxIfaces
MaxIfaces == 2
\* interfaces in one Juniper listing
MaxJListing == 2
\* members a Juniper link-aggregation status reply names
MaxMembers == 1

Min(a, b) == IF a < b THEN a ELSE b
Max(a, b) == IF a > b THEN a ELSE b

VARIABLES
    \* ---- fleet (main) ----
    platform,           \* per device NetBox returned for the tag: its platform name
    parallel_devices,   \* int(os.environ.get("PARALLEL_DEVICES", "6"))
    devices_to_fetch,   \* the list of device names handed to the pool
    max_workers,        \* size of the ThreadPoolExecutor
    submitted,          \* how many executor.submit calls main has made
    future,             \* future[d]: state of the Future of device d
    outcome,            \* outcome[d]: what the worker returned or raised
    client,             \* client[d]: the worker's paramiko SSHClient
    closeCalls,         \* closeCalls[d]: client.close() calls of the worker
    wpc,                \* wpc[d]: position of the worker of device d
    consumed,           \* futures already yielded by as_completed
    results,            \* the dict results of main
    handlerRuns,        \* devices for which main's except branch ran
    mainpc,             \* position of main
    completed,          \* the finished futures not yet yielded, in the order they finished
    early,              \* those of them that had finished when as_completed began
    \* ---- one session (get_arista_uplink_stats / get_juniper_uplink_stats) ----
    platform_name,      \* what get_device_platform_name gave for the device
    script,             \* "uplinks_stats" or "arista_uplinks_stats"
    kind,               \* "arista" or "juniper": which get_*_uplink_stats runs
    spc,                \* position of the function
    sclient,            \* the paramiko client: "none", "open", "closed"
    sclose,             \* number of client.close() calls
    sent,               \* the command lines written to the channel, in order
    bootstrap,          \* what the read of the bootstrap listing gave
    uplinks,            \* the candidate list
    idx,                \* index of the current candidate
    if_obj,             \* detail object of the current candidate
    trans_obj,          \* transceiver object of the current candidate
    chassis_hw,         \* Juniper: what the chassis inventory read gave
    aggregate_name,     \* Juniper: aggregate of the current candidate, or "None"
    physical_names,     \* Juniper: physical interfaces of the current candidate
    midx,               \* Juniper: index into physical_names
    aggregates_added,   \* Juniper: aggregates that already have their isLag row
    result,             \* the list of rows built so far
    ret,                \* the value returned, or the exception raised
    probes,             \* per candidate: the device's true answers and which reads failed
    marked,             \* names a device response showed with the Uplink: marker
    seenUp,             \* names a device response showed operationally up
    anyMarker,          \* whether a listing showed any interface with the marker
    failedReads,        \* positions in sent of the commands whose read gave no payload
    \* ---- the channel of one session, byte by byte ----
    cmdNo,              \* number of command lines written to the channel so far
    devOut,             \* output the device still has to emit, oldest first
    wire,               \* bytes that arrived and wait in the channel for recv
    buf,                \* read_until_json_and_prompt: the chunks received so far
    rpc,                \* where the session is: "ready", "reading", "closed"
    waited,             \* seconds since the current read began
    quiet,              \* seconds since last_data
    answers,            \* what the read of each command returned, in order
    sentOver,           \* commands written while earlier output was still unread
    \* ---- the login handshake of one session ----
    lpc,                \* position: "wait", "send_user", "password", "send_listing", ...
    lwait,              \* which of the three read_until calls runs (1..3), 0 before
    ldev,               \* what the device still has to write during the login
    lwire,              \* bytes that arrived and wait in the channel for recv
    lbuf,               \* read_until: the chunks received so far
    lelapsed,           \* seconds since the current read_until began
    out_after_user,     \* what the second read_until returned
    lsent,              \* the lines written to the channel, in order
    expired,            \* the read_until calls that ended at their deadline
    promptSeen,         \* whether a read_until returned a text with '>' or '#'
    \* ---- the text functions, applied to one input ----
    fpc,                \* "-" (not in use), "call", "return"
    jtext,              \* extract_json: the text
    jout,               \* extract_json: what it returned
    ptext,              \* read_until_prompt: the payload the device writes before its prompt
    pgot,               \* read_until_prompt: characters received so far
    pwhy,               \* read_until_prompt: why it returned: "prompt", "idle", "deadline"
    xtext,              \* _extract_all_xml_...: the text, tag by tag
    blocks,             \* _extract_all_xml_...: the blocks returned
    listing,            \* desc_data: the bootstrap listing the device gave
    candidates,         \* uplinks = parse_*_uplinks(desc_data)
    probed,             \* the candidates whose turn of the loop has begun, in order
    \* ---- kind resolution, two sessions side by side ----
    entry,              \* the function resolving the kind
    supplied_platform,  \* platform_name as get_device_platform_name gave it
    out_after_pass,     \* per session: the text the third read_until returned
    dialect,            \* per session: "-" (unresolved), "juniper", "arista", "skip"
    \* ---- progress_print, called by the pool threads and by main ----
    tpc,                \* per thread: its position
    print_lock,         \* "free", or the thread holding the lock
    progress_file,      \* what has been written to the sink, write by write
    emitted,            \* per device: progress_print calls made for it so far
    line,               \* per thread: the line its progress_print call is writing
    \* ---- the pool against the clock ----
    now,                \* time units since the devices were submitted
    work,               \* per device: "queued", "running", "done"
    left,               \* per device: time units its worker still takes
    delay,              \* the time units every worker takes
    pool,               \* max_workers
    \* ---- --merge-into FILE ----
    mpc,                \* position of main after the pool
    stats_file,         \* what FILE holds
    file_before,        \* what FILE held when main was started
    polled,             \* results: the entry of every polled host
    merged,             \* the variable merged of main
    exit_code,          \* what main returned
    \* ---- the Juniper listing step with its progress lines ----
    jpc,                \* position in get_juniper_uplink_stats, lines 1000-1039
    json_listing,       \* what the JSON listing was and the candidates parsed from it
    xml_elems,          \* the interface elements of the XML reply, in document order
    jun_uplinks,        \* the variable uplinks
    jun_sent,           \* the listing commands sent after the JSON one
    jun_log,            \* the progress lines given to log
    \* ---- the two listing parsers on one interface table ----
    ppc,                \* "call" before the parsers are applied, "return" after
    table,              \* the interfaces of the device in the order it shows them
    link_up_only,       \* the argument require_link_up of both parsers
    from_json,          \* what parse_juniper_uplinks returned
    from_xml,           \* what parse_juniper_uplinks_from_xml returned
    \* ---- the row loop of get_juniper_uplink_stats ----
    rowpc,              \* position in the loop over the candidates
    row_uplinks,        \* the candidate names, in the order of uplinks
    row_idx,            \* candidates taken so far
    row_aggregate,      \* aggregate_name of the candidate at hand
    row_members,        \* physical_names of the candidate at hand
    lags_added,         \* aggregates_added
    rows,               \* result
    \* ---- report mode: _run_report ----
    reppc,              \* position of _run_report
    report_devices,     \* devices: the names in the order NetBox gave them
    report_future,      \* per place in devices: the state of its future
    report_done,        \* the places in the order their workers finished
    report_consumed,    \* the places whose future the loop has taken
    results_by_name,    \* the dict results_by_name
    table_rows,         \* the rows printed, top to bottom
    \* ---- the CLI name of an Arista interface ----
    npc,                \* position in one turn of the loop over the candidates
    iface_name,         \* the name as the listing gave it, a sequence of characters
    cli_name,           \* arista_cli_interface_name(iface_name)
    cli_again,          \* the function applied to cli_name
    name_cmds,          \* the per-interface commands sent, with the name each carries
    lookup_keys         \* the keys under which the responses were looked up

fleetVars == <<platform, parallel_devices, devices_to_fetch, max_workers, submitted, future,
               outcome, client, closeCalls, wpc, consumed, results, handlerRuns, mainpc,
               completed, early>>

junVars == <<chassis_hw, aggregate_name, physical_names, midx, aggregates_added>>

sessVars == <<platform_name, script, kind, spc, sclient, sclose, sent, bootstrap, uplinks, idx, if_obj,
              trans_obj, junVars, result, ret, probes, marked, seenUp, anyMarker,
              failedReads>>

chanVars == <<cmdNo, devOut, wire, buf, rpc, waited, quiet, answers, sentOver>>

loginVars == <<lpc, lwait, ldev, lwire, lbuf, lelapsed, out_after_user, lsent, expired,
               promptSeen>>

kindVars == <<entry, supplied_platform, out_after_pass, dialect>>

\* the variables of the layers that follow the text functions
lockVars == <<tpc, print_lock, progress_file, emitted, line>>

clockVars == <<now, work, left, delay, pool>>

mergeVars == <<mpc, stats_file, file_before, polled, merged, exit_code>>

\* the variables of the layers after the clock
fallVars == <<jpc, json_listing, xml_elems, jun_uplinks, jun_sent, jun_log>>

parseVars == <<ppc, table, link_up_only, from_json, from_xml>>

rowVars == <<rowpc, row_uplinks, row_idx, row_aggregate, row_members, lags_added, rows>>

reportVars == <<reppc, report_devices, report_future, report_done, report_consumed,
                results_by_name, table_rows>>

nameVars == <<npc, iface_name, cli_name, cli_again, name_cmds, lookup_keys>>

tailVars == <<mergeVars, fallVars, parseVars, rowVars, reportVars, nameVars>>

laterVars == <<kindVars, lockVars, clockVars, tailVars>>

funVars == <<fpc, jtext, jout, ptext, pgot, pwhy, xtext, blocks, listing, candidates, probed,
             laterVars>>

vars == <<fleetVars, sessVars, chanVars, loginVars, funVars>>

\* the variables a layer leaves alone
notFleet == <<sessVars, chanVars, loginVars, funVars>>
notSession == <<fleetVars, chanVars, loginVars, funVars>>
notChannel == <<fleetVars, sessVars, loginVars, funVars>>
notLogin == <<fleetVars, sessVars, chanVars, funVars>>
notFun == <<fleetVars, sessVars, chanVars, loginVars>>

(***************************************************************************)
(* Values                                                                  *)
(***************************************************************************)
AllDevices == 1..MaxDevices

\* str(e) of exceptions that escape a worker
ExcTexts == {"Socket is closed", "'list' object has no attribute 'get'"}

\* entry shapes of the result map
ErrorEntry(msg) == [shape |-> "error", error |-> msg]
ListEntry(n)    == [shape |-> "list", len |-> n]
NullEntry       == [shape |-> "null"]

\* what a worker hands to its Future
Returned(data) == [how |-> "returned", data |-> data]
Raised(text)   == [how |-> "raised", text |-> text]

SeqToSet(s) == {s[i] : i \in 1..Len(s)}

\* the increasing sequence of the elements of a set of numbers
RECURSIVE SortedSeq(_)
SortedSeq(S) ==
    IF S = {} THEN <<>>
    ELSE LET m == CHOOSE x \in S : \A y \in S : x <= y
         IN <<m>> \o SortedSeq(S \ {m})

(***************************************************************************)
(* Each specification keeps the other layers' variables at rest            *)
(***************************************************************************)
FleetIdle ==
    /\ platform = <<>>
    /\ parallel_devices = 0
    /\ devices_to_fetch = <<>>
    /\ max_workers = 0
    /\ submitted = 0
    /\ future = <<>>
    /\ outcome = <<>>
    /\ client = <<>>
    /\ closeCalls = <<>>
    /\ wpc = <<>>
    /\ consumed = {}
    /\ results = <<>>
    /\ handlerRuns = {}
    /\ mainpc = "-"
    /\ completed = <<>>
    /\ early = {}

SessionIdle ==
    /\ platform_name = "-"
    /\ script = "-"
    /\ kind = "-"
    /\ spc = "-"
    /\ sclient = "none"
    /\ sclose = 0
    /\ sent = <<>>
    /\ bootstrap = "-"
    /\ uplinks = <<>>
    /\ idx = 0
    /\ if_obj = <<>>
    /\ trans_obj = <<>>
    /\ chassis_hw = <<>>
    /\ aggregate_name = "None"
    /\ physical_names = <<>>
    /\ midx = 0
    /\ aggregates_added = {}
    /\ result = <<>>
    /\ ret = <<>>
    /\ probes = <<>>
    /\ marked = {}
    /\ seenUp = {}
    /\ anyMarker = FALSE
    /\ failedReads = {}

ChannelIdle ==
    /\ cmdNo = 0
    /\ devOut = <<>>
    /\ wire = <<>>
    /\ buf = <<>>
    /\ rpc = "-"
    /\ waited = 0
    /\ quiet = 0
    /\ answers = <<>>
    /\ sentOver = {}

LoginIdle ==
    /\ lpc = "-"
    /\ lwait = 0
    /\ ldev = <<>>
    /\ lwire = <<>>
    /\ lbuf = <<>>
    /\ lelapsed = 0
    /\ out_after_user = <<>>
    /\ lsent = <<>>
    /\ expired = {}
    /\ promptSeen = FALSE

JsonIdle ==
    /\ jtext = <<>>
    /\ jout = [k |-> "none"]

PromptIdle ==
    /\ ptext = <<>>
    /\ pgot = 0
    /\ pwhy = "-"

XmlIdle ==
    /\ xtext = <<>>
    /\ blocks = <<>>

ListingIdle ==
    /\ listing = [k |-> "none"]
    /\ candidates = <<>>
    /\ probed = <<>>

KindIdle ==
    /\ entry = "-"
    /\ supplied_platform = "None"
    /\ out_after_pass = <<>>
    /\ dialect = <<>>

ProgressIdle ==
    /\ tpc = <<>>
    /\ print_lock = "free"
    /\ progress_file = <<>>
    /\ emitted = <<>>
    /\ line = <<>>

ClockIdle ==
    /\ now = 0
    /\ work = <<>>
    /\ left = <<>>
    /\ delay = 0
    /\ pool = 0

MergeIdle ==
    /\ mpc = "-"
    /\ stats_file = [k |-> "missing"]
    /\ file_before = [k |-> "missing"]
    /\ polled = <<>>
    /\ merged = [k |-> "none"]
    /\ exit_code = "-"

FallIdle ==
    /\ jpc = "-"
    /\ json_listing = [k |-> "none", uplinks |-> <<>>]
    /\ xml_elems = <<>>
    /\ jun_uplinks = <<>>
    /\ jun_sent = <<>>
    /\ jun_log = <<>>

ParsersIdle ==
    /\ ppc = "-"
    /\ table = <<>>
    /\ link_up_only = FALSE
    /\ from_json = <<>>
    /\ from_xml = <<>>

RowsIdle ==
    /\ rowpc = "-"
    /\ row_uplinks = <<>>
    /\ row_idx = 0
    /\ row_aggregate = "None"
    /\ row_members = <<>>
    /\ lags_added = {}
    /\ rows = <<>>

ReportIdle ==
    /\ reppc = "-"
    /\ report_devices = <<>>
    /\ report_future = <<>>
    /\ report_done = <<>>
    /\ report_consumed = {}
    /\ results_by_name = <<>>
    /\ table_rows = <<>>

NameIdle ==
    /\ npc = "-"
    /\ iface_name = <<>>
    /\ cli_name = <<>>
    /\ cli_again = <<>>
    /\ name_cmds = <<>>
    /\ lookup_keys = <<>>

TailIdle == MergeIdle /\ FallIdle /\ ParsersIdle /\ RowsIdle /\ ReportIdle /\ NameIdle

LaterIdle == KindIdle /\ ProgressIdle /\ ClockIdle /\ TailIdle

FunIdle ==
    /\ fpc = "-"
    /\ LaterIdle
    /\ JsonIdle
    /\ PromptIdle
    /\ XmlIdle
    /\ ListingIdle

(***************************************************************************)
(* Fleet run: main() of uplinks_stats.py (and of arista_uplinks_stats.py,  *)
(* whose pool and as_completed loop are the same code)                     *)
(***************************************************************************)
\* min(len(devices_to_fetch), max(1, int(PARALLEL_DEVICES)))
pool_size(n, parallel) == Min(n, Max(1, parallel))

Fleet == SeqToSet(devices_to_fetch)
Running == {d \in Fleet : future[d] = "running"}
Finished == {d \in Fleet : future[d] = "finished"}
OpenSessions == {d \in Fleet : client[d] = "open"}

\* the body of the as_completed loop applied to one finished future:
\* name, data = future.result(); results[name] = data, or the except branch
main_store_swallow(res, d, oc) ==
    IF oc.how = "returned"
    THEN [k \in DOMAIN res \cup {d} |-> IF k = d THEN oc.data ELSE res[k]]
    ELSE res
main_store_clobber(res, d, oc) ==
    IF oc.how = "returned"
    THEN [k \in DOMAIN res \cup {d} |-> IF k = d THEN oc.data ELSE res[k]]
    ELSE [k \in {d} |-> ErrorEntry(oc.text)]
\* the except branch writing under the name left over from an earlier iteration
main_store_stale(res, d, oc) ==
    IF oc.how = "returned" \/ DOMAIN res = {}
    THEN [k \in DOMAIN res \cup {d} |-> IF k = d THEN (IF oc.how = "returned" THEN oc.data ELSE ErrorEntry(oc.text)) ELSE res[k]]
    ELSE LET name == CHOOSE k \in DOMAIN res : TRUE
         IN [k \in DOMAIN res |-> IF k = name THEN ErrorEntry(oc.text) ELSE res[k]]
main_store(res, d, oc) ==
    [k \in DOMAIN res \cup {d} |->
        IF k = d
        THEN IF oc.how = "returned" THEN oc.data ELSE ErrorEntry(oc.text)
        ELSE res[k]]

\* a pool of one thread whatever max_workers is
pool_has_slot_one(busy, size) == busy < 1

\* a pool thread may take a work item: fewer than max_workers threads are busy
pool_has_slot(busy, size) == busy < size

\* platform names of NetBox; "None" is a device without platform
PlatformNames == {"Arista EOS", "Juniper JunOS", "Cisco IOS", "None"}

\* the words of interest that platform_name.lower() contains
LowerWords(n) ==
    CASE n = "Arista EOS" -> {"arista", "eos"}
      [] n = "Juniper JunOS" -> {"juniper", "junos"}
      [] OTHER -> {}

\* is_juniper_platform
is_juniper_platform(n) ==
    IF n = "None" THEN FALSE
    ELSE "junos" \in LowerWords(n) \/ "juniper" \in LowerWords(n)

\* is_arista_platform
is_arista_platform(n) ==
    IF n = "None" THEN FALSE
    ELSE "arista" \in LowerWords(n) \/ "eos" \in LowerWords(n)

\* the platform names tried in the fleet run; "-" marks a device that NetBox
\* did not return for the tag
FleetPlatforms == {"Arista EOS", "Cisco IOS"}

\* the test of the filter loop with --platform all
is_supported_platform(n) == is_arista_platform(n) \/ is_juniper_platform(n)

\* devices = list(nb.dcim.devices.filter(tag=netbox_tag))
Devices == {d \in AllDevices : platform[d] # "-"}

\* the loop that fills devices_to_fetch (--platform all)
devices_to_fetch_of(pf) ==
    SortedSeq({d \in AllDevices : pf[d] # "-" /\ is_supported_platform(pf[d])})

FleetInit ==
    /\ parallel_devices \in 0..MaxParallel
    /\ platform \in [AllDevices -> FleetPlatforms \cup {"-"}]
    /\ devices_to_fetch = devices_to_fetch_of(platform)
    /\ devices_to_fetch # <<>>
    /\ max_workers = pool_size(Len(devices_to_fetch), parallel_devices)
    /\ submitted = 0
    /\ future = [d \in AllDevices |-> "unsubmitted"]
    /\ outcome = [d \in AllDevices |-> [how |-> "none"]]
    /\ client = [d \in AllDevices |-> "none"]
    /\ closeCalls = [d \in AllDevices |-> 0]
    /\ wpc = [d \in AllDevices |-> "-"]
    /\ consumed = {}
    /\ results = <<>>
    /\ handlerRuns = {}
    /\ mainpc = "submit"
    /\ completed = <<>>
    /\ early = {}
    /\ SessionIdle
    /\ ChannelIdle
    /\ LoginIdle
    /\ FunIdle

\* executor.submit(process_one_device_stats, device, ...) for the next device of
\* the dict comprehension; after the last one main enters the as_completed loop
Submit ==
    /\ mainpc = "submit"
    /\ submitted < Len(devices_to_fetch)
    /\ submitted' = submitted + 1
    /\ future' = [future EXCEPT ![devices_to_fetch[submitted + 1]] = "pending"]
    /\ mainpc' = IF submitted + 1 = Len(devices_to_fetch) THEN "as_completed" ELSE "submit"
    /\ UNCHANGED <<parallel_devices, devices_to_fetch, max_workers, outcome, client,
                   closeCalls, wpc, consumed, results, handlerRuns>>
    /\ UNCHANGED <<completed, early>>
    /\ UNCHANGED platform
    /\ UNCHANGED notFleet

\* a pool thread takes the oldest queued work item and enters
\* process_one_device_stats, which dispatches to process_one_arista or
\* process_one_juniper (main has kept only devices of these two platforms)
StartWorker(d) ==
    /\ d \in Fleet
    /\ future[d] = "pending"
    /\ \A i \in 1..Len(devices_to_fetch) :
          future[devices_to_fetch[i]] = "pending" => devices_to_fetch[i] >= d
    /\ pool_has_slot(Cardinality(Running), max_workers)
    /\ future' = [future EXCEPT ![d] = "running"]
    /\ wpc' = [wpc EXCEPT ![d] = "connect"]
    /\ UNCHANGED <<parallel_devices, devices_to_fetch, max_workers, submitted, outcome,
                   client, closeCalls, consumed, results, handlerRuns, mainpc>>
    /\ UNCHANGED <<completed, early>>
    /\ UNCHANGED platform
    /\ UNCHANGED notFleet

\* client.connect(...) of get_arista_uplink_stats / get_juniper_uplink_stats
WorkerConnectOk(d) ==
    /\ wpc[d] = "connect"
    /\ client' = [client EXCEPT ![d] = "open"]
    /\ wpc' = [wpc EXCEPT ![d] = "session"]
    /\ UNCHANGED <<parallel_devices, devices_to_fetch, max_workers, submitted, future,
                   outcome, closeCalls, consumed, results, handlerRuns, mainpc>>
    /\ UNCHANGED <<completed, early>>
    /\ UNCHANGED platform
    /\ UNCHANGED notFleet

\* except (socket.timeout, paramiko.SSHException, OSError): return None, "..."
\* and process_one_*: return device.name, {"error": err}
WorkerConnectFail(d) ==
    /\ wpc[d] = "connect"
    /\ wpc' = [wpc EXCEPT ![d] = "-"]
    /\ future' = [future EXCEPT ![d] = "finished"]
    /\ outcome' = [outcome EXCEPT ![d] = Returned(ErrorEntry("connect"))]
    /\ UNCHANGED <<parallel_devices, devices_to_fetch, max_workers, submitted, client,
                   closeCalls, consumed, results, handlerRuns, mainpc>>
    /\ completed' = Append(completed, d)
    /\ UNCHANGED early
    /\ UNCHANGED platform
    /\ UNCHANGED notFleet

\* the bootstrap listing gave no payload: client.close(); return None, "..."
WorkerBootstrapFail(d) ==
    /\ wpc[d] = "session"
    /\ wpc' = [wpc EXCEPT ![d] = "-"]
    /\ client' = [client EXCEPT ![d] = "closed"]
    /\ closeCalls' = [closeCalls EXCEPT ![d] = @ + 1]
    /\ future' = [future EXCEPT ![d] = "finished"]
    /\ outcome' = [outcome EXCEPT ![d] = Returned(ErrorEntry("bootstrap"))]
    /\ UNCHANGED <<parallel_devices, devices_to_fetch, max_workers, submitted,
                   consumed, results, handlerRuns, mainpc>>
    /\ completed' = Append(completed, d)
    /\ UNCHANGED early
    /\ UNCHANGED platform
    /\ UNCHANGED notFleet

\* the pipeline ran to its end (or found no uplink): client.close();
\* return result, None and process_one_*: return device.name, stats
WorkerRecords(d) ==
    /\ wpc[d] = "session"
    /\ \E n \in 0..MaxRecords :
          outcome' = [outcome EXCEPT ![d] = Returned(ListEntry(n))]
    /\ wpc' = [wpc EXCEPT ![d] = "-"]
    /\ client' = [client EXCEPT ![d] = "closed"]
    /\ closeCalls' = [closeCalls EXCEPT ![d] = @ + 1]
    /\ future' = [future EXCEPT ![d] = "finished"]
    /\ UNCHANGED <<parallel_devices, devices_to_fetch, max_workers, submitted,
                   consumed, results, handlerRuns, mainpc>>
    /\ completed' = Append(completed, d)
    /\ UNCHANGED early
    /\ UNCHANGED platform
    /\ UNCHANGED notFleet

\* an exception raised after connect (invoke_shell, send, recv, or the processing
\* of a response) is caught nowhere in get_*_uplink_stats, process_one_* or
\* process_one_device_stats: it ends the worker and is stored in the Future;
\* no close() is on that path
WorkerRaise(d) ==
    /\ wpc[d] = "session"
    /\ \E t \in ExcTexts :
          outcome' = [outcome EXCEPT ![d] = Raised(t)]
    /\ wpc' = [wpc EXCEPT ![d] = "-"]
    /\ future' = [future EXCEPT ![d] = "finished"]
    /\ UNCHANGED <<parallel_devices, devices_to_fetch, max_workers, submitted, client,
                   closeCalls, consumed, results, handlerRuns, mainpc>>
    /\ completed' = Append(completed, d)
    /\ UNCHANGED early
    /\ UNCHANGED platform
    /\ UNCHANGED notFleet

\* as_completed(future_to_device) begins: the futures that have finished by
\* now are put in a set, to be yielded first; the others will be yielded as
\* they notify the waiter
AsCompleted ==
    /\ mainpc = "as_completed"
    /\ early' = Finished
    /\ mainpc' = "collect"
    /\ UNCHANGED <<parallel_devices, devices_to_fetch, max_workers, submitted, future,
                   outcome, client, closeCalls, wpc, consumed, results, handlerRuns,
                   completed>>
    /\ UNCHANGED platform
    /\ UNCHANGED notFleet

\* the future as_completed yields next: any one of the set of those that had
\* finished when it began (a set has no order of finishing), after them the
\* oldest of the waiter's list
yields_next(d) ==
    IF early # {} THEN d \in early ELSE completed # <<>> /\ d = Head(completed)

\* one iteration of: for future in as_completed(future_to_device)
Collect(d) ==
    /\ mainpc = "collect"
    /\ d \in Finished \ consumed
    /\ yields_next(d)
    /\ completed' = SelectSeq(completed, LAMBDA x : x # d)
    /\ early' = early \ {d}
    /\ consumed' = consumed \cup {d}
    /\ results' = main_store(results, d, outcome[d])
    /\ handlerRuns' = IF outcome[d].how = "raised" THEN handlerRuns \cup {d}
                      ELSE handlerRuns
    /\ UNCHANGED <<parallel_devices, devices_to_fetch, max_workers, submitted, future,
                   outcome, client, closeCalls, wpc, mainpc>>
    /\ UNCHANGED platform
    /\ UNCHANGED notFleet

\* as_completed is exhausted and the with block of the executor is left
ExitPool ==
    /\ mainpc = "collect"
    /\ consumed = Fleet
    /\ mainpc' = "done"
    /\ UNCHANGED <<parallel_devices, devices_to_fetch, max_workers, submitted, future,
                   outcome, client, closeCalls, wpc, consumed, results, handlerRuns>>
    /\ UNCHANGED <<completed, early>>
    /\ UNCHANGED platform
    /\ UNCHANGED notFleet

FleetNext ==
    \/ Submit
    \/ \E d \in AllDevices : StartWorker(d)
    \/ \E d \in AllDevices : WorkerConnectOk(d)
    \/ \E d \in AllDevices : WorkerConnectFail(d)
    \/ \E d \in AllDevices : WorkerBootstrapFail(d)
    \/ \E d \in AllDevices : WorkerRecords(d)
    \/ \E d \in AllDevices : WorkerRaise(d)
    \/ AsCompleted
    \/ \E d \in AllDevices : Collect(d)
    \/ ExitPool

Spec == FleetInit /\ [][FleetNext]_vars

(***************************************************************************)
(* Properties of the fleet run                                             *)
(***************************************************************************)
\* the entry a device must get, from what its own worker returned or raised
EntryOf(oc) == IF oc.how = "returned" THEN oc.data ELSE ErrorEntry(oc.text)

\* C25: no result is consumed before every device is submitted; each entry
\* added to the result map is that of the future that finished first among
\* those not yet consumed; main leaves the pool for the output only when every
\* submitted worker has returned or raised
C25_SubmitAllConsumeInCompletionOrder ==
    /\ [](consumed # {} => submitted = Len(devices_to_fetch))
    /\ [][consumed' # consumed =>
            \E d \in Fleet : /\ consumed' = consumed \cup {d}
                             /\ DOMAIN results' = DOMAIN results \cup {d}
                             /\ d = Head(completed)]_vars
    /\ [](mainpc = "done" => \A d \in Fleet : future[d] = "finished" /\ d \in consumed)

\* the same without the order of the entries
SubmitAllBeforeConsumeOutputLast ==
    /\ consumed # {} => submitted = Len(devices_to_fetch)
    /\ mainpc = "done" => \A d \in Fleet : future[d] = "finished" /\ d \in consumed

\* the futures that finish after as_completed began are consumed in the order
\* they finished
LateFuturesInCompletionOrder ==
    [][(consumed' # consumed /\ early = {}) =>
          consumed' = consumed \cup {Head(completed)}]_vars

C1_OneEntryPerDevice ==
    mainpc = "done" => DOMAIN results = Fleet

\* a finished run with three devices: one raised, one failed to connect, one
\* returned records
C1_Witness ==
    /\ mainpc = "done"
    /\ \E a, b, c \in Fleet :
          /\ outcome[a].how = "raised"
          /\ outcome[b] = Returned(ErrorEntry("connect"))
          /\ outcome[c] = Returned(ListEntry(1))

\* C2: a worker that raises gets an error entry with the exception text; every
\* collected device's entry is the one its own worker produced, whatever its
\* siblings did; and the run ends only when every submitted worker has run
C2_Isolation ==
    /\ \A d \in consumed :
          /\ d \in DOMAIN results
          /\ results[d] = EntryOf(outcome[d])
          /\ outcome[d].how = "raised" => results[d] = ErrorEntry(outcome[d].text)
    /\ mainpc = "done" => \A d \in Fleet : future[d] = "finished" /\ d \in consumed

\* a finished run in which one worker raised and a sibling's records are in the
\* result map next to the error entry with the exception text
C2_Witness ==
    /\ mainpc = "done"
    /\ \E a, b \in Fleet :
          /\ outcome[a].how = "raised"
          /\ outcome[b] = Returned(ListEntry(1))
          /\ results[b] = ListEntry(1)
          /\ results[a] = ErrorEntry("Socket is closed")

\* the number of workers inside process_one_device_stats never exceeds the pool
\* size computed from the environment
RunningWithinPool ==
    Cardinality(Running) <= Min(Len(devices_to_fetch), Max(1, parallel_devices))

\* C5: at every moment at most min(n, max(1, PARALLEL_DEVICES)) workers run, and
\* at most that many SSH sessions are open
C5_ConcurrencyBound ==
    /\ Cardinality(Running) <= Min(Len(devices_to_fetch), Max(1, parallel_devices))
    /\ Cardinality(OpenSessions) <= Min(Len(devices_to_fetch), Max(1, parallel_devices))

\* C11: when the run is over, every device NetBox returned whose platform is
\* neither Arista nor Juniper has the entry null in the result map.
C11_UnsupportedGetsNull ==
    mainpc = "done" =>
        \A d \in Devices :
            ~is_supported_platform(platform[d]) =>
                d \in DOMAIN results /\ results[d] = NullEntry

\* C10: no worker ends by raising, so the except branch of main never runs
C10_WorkerNeverRaises ==
    /\ \A d \in Fleet : future[d] = "finished" => outcome[d].how = "returned"
    /\ handlerRuns = {}

(***************************************************************************)
(* One session: get_arista_uplink_stats (both scripts) and                 *)
(* get_juniper_uplink_stats. A read of a command's response is one step,   *)
(* whose outcome is what read_until_json_and_prompt returned: no payload   *)
(* (None), the empty object, or an object.                                 *)
(***************************************************************************)
NoData == [k |-> "none"]
EmptyObject == [k |-> "empty"]

\* Python's "not data" for what read_until_json_and_prompt returns
Falsy(data) == data.k \in {"none", "empty"}

\* descriptions a listing may carry; "Uplink:" in desc
Descs == {"Uplink: ISP-1", "to-server"}
HasMarker(desc) == desc = "Uplink: ISP-1"

Cmd(c, n) == [cmd |-> c, iface |-> n]

\* str.lower() on the status words that occur
Lower(w) == IF w = "lowerLayerDown" THEN "lowerlayerdown" ELSE w

\* ---- Arista ----
RECURSIVE DistinctSeqs(_, _)
\* the sequences of at most n distinct elements of S
DistinctSeqs(S, n) ==
    IF n = 0 \/ S = {} THEN {<<>>}
    ELSE {<<>>} \cup UNION {{<<x>> \o t : t \in DistinctSeqs(S \ {x}, n - 1)} : x \in S}

\* the objects {"interfaceDescriptions": {name: {"description": ...}, ...}};
\* an interface is named by its place in the listing
ArListings ==
    UNION {{[k |-> "obj",
             interfaceDescriptions |->
                 [i \in 1..n |-> [name |-> i, description |-> d[i]]]]
              : d \in [1..n -> Descs]}
             : n \in 0..MaxIfaces}

\* parse_arista_uplinks
parse_arista_uplinks(json_data) ==
    SelectSeq(json_data.interfaceDescriptions, LAMBDA e : HasMarker(e.description))

\* the object of one interface in "show interfaces X | json"; {} is EmptyIf
EmptyIf == [present |-> FALSE, description |-> "", lineProtocolStatus |-> "",
            interfaceStatus |-> "", forwardingModel |-> "None", bandwidth |-> "None"]
ArDetail(link, fwd, desc) ==
    [present |-> TRUE,
     description |-> desc,
     lineProtocolStatus |-> CASE link = "up" -> "up"
                              [] link = "down" -> "down"
                              [] OTHER -> "lowerLayerDown",
     interfaceStatus |-> CASE link = "up" -> "connected"
                           [] link = "down" -> "notconnect"
                           [] OTHER -> "errdisabled",
     forwardingModel |-> fwd,
     bandwidth |-> "10G"]
ArDetails(desc) ==
    {ArDetail(l, f, desc) : l \in {"up", "down", "errdisabled"}, f \in {"bridged", "routed"}}
OperUp(o) == o.present /\ o.lineProtocolStatus = "up" /\ o.interfaceStatus = "connected"

\* the object of one interface in "show interfaces X transceiver | json"
EmptyTrans == [mediaType |-> "None", txPower |-> "None"]
ArTrans == [mediaType |-> "10GBASE-LR", txPower |-> "-2.1"]

\* _arista_interface_link_up
arista_interface_link_up(o) ==
    IF ~o.present THEN FALSE
    ELSE IF Lower(o.lineProtocolStatus) = "down" THEN FALSE
    ELSE IF Lower(o.interfaceStatus) \in {"disabled", "notconnect", "down"} THEN FALSE
    ELSE TRUE

\* the row dict of get_arista_uplink_stats; an absent switchportConfiguration
\* key is "None"
arista_row(cand, ifo, tro, sw) ==
    [name |-> cand.name,
     description |-> IF ifo.description # "" THEN ifo.description ELSE cand.description,
     mediaType |-> tro.mediaType,
     bandwidth |-> ifo.bandwidth,
     txPower |-> tro.txPower,
     forwardingModel |-> ifo.forwardingModel,
     switchportConfiguration |-> sw]

Probe(name) == [name |-> name, detail |-> EmptyIf, failed |-> {}]

SessionInit ==
    /\ script \in {"uplinks_stats", "arista_uplinks_stats"}
    /\ platform_name \in PlatformNames
    /\ kind = "-"
    /\ spc = "dispatch"
    /\ sclient = "none"
    /\ sclose = 0
    /\ sent = <<>>
    /\ bootstrap = "-"
    /\ uplinks = <<>>
    /\ idx = 0
    /\ if_obj = EmptyIf
    /\ trans_obj = EmptyTrans
    /\ chassis_hw = NoData
    /\ aggregate_name = "None"
    /\ physical_names = <<>>
    /\ midx = 0
    /\ aggregates_added = {}
    /\ result = <<>>
    /\ ret = [how |-> "none"]
    /\ probes = <<>>
    /\ marked = {}
    /\ seenUp = {}
    /\ anyMarker = FALSE
    /\ failedReads = {}
    /\ FleetIdle
    /\ ChannelIdle
    /\ LoginIdle
    /\ FunIdle

\* process_one_device_stats: the platform decides between process_one_arista,
\* process_one_juniper and "return device.name, None"; process_one_arista of
\* arista_uplinks_stats.py makes the test itself
Dispatch ==
    /\ spc = "dispatch"
    /\ kind' = IF is_arista_platform(platform_name) THEN "arista"
               ELSE IF script = "uplinks_stats" /\ is_juniper_platform(platform_name)
               THEN "juniper"
               ELSE "-"
    /\ IF kind' = "-"
       THEN /\ ret' = [how |-> "skipped"]
            /\ spc' = "returned"
       ELSE /\ ret' = ret
            /\ spc' = "connect"
    /\ UNCHANGED <<script, sclient, sclose, sent, bootstrap, uplinks, idx, if_obj,
                   trans_obj, result, probes, marked, seenUp>>
    /\ UNCHANGED junVars
    /\ UNCHANGED <<anyMarker, failedReads>>
    /\ UNCHANGED platform_name
    /\ UNCHANGED notSession

\* what process_one_* hands to main for the result map
worker_entry(r) ==
    CASE r.how = "skipped" -> NullEntry
      [] r.how = "error" -> ErrorEntry(r.err)
      [] r.how = "list" -> ListEntry(Len(r.data))

\* client.connect(...) succeeded
SessConnectOk ==
    /\ spc = "connect"
    /\ sclient' = "open"
    /\ spc' = "shell"
    /\ UNCHANGED <<script, kind, sclose, sent, bootstrap, uplinks, idx, if_obj,
                   trans_obj, result, ret, probes, marked, seenUp>>
    /\ UNCHANGED junVars
    /\ UNCHANGED <<anyMarker, failedReads>>
    /\ UNCHANGED platform_name
    /\ UNCHANGED notSession

\* str(e) of what client.connect raises: socket.timeout, an SSHException, an OSError
ConnectCauses == {"timed out", "Authentication failed.", "No route to host"}

\* a variant that reports a fixed text
connect_error_opaque(e) == "error"

\* the text handed back: "{} (через {:.0f} с)".format(str(e), elapsed) in
\* uplinks_stats.py, str(e) in arista_uplinks_stats.py
connect_error(e) ==
    IF script = "uplinks_stats" THEN e \o " (elapsed)" ELSE e

\* except (socket.timeout, paramiko.SSHException, OSError): return None, "..."
SessConnectFail ==
    /\ spc = "connect"
    /\ \E e \in ConnectCauses : ret' = [how |-> "error", err |-> connect_error(e)]
    /\ spc' = "returned"
    /\ UNCHANGED <<script, kind, sclient, sclose, sent, bootstrap, uplinks, idx, if_obj,
                   trans_obj, result, probes, marked, seenUp>>
    /\ UNCHANGED junVars
    /\ UNCHANGED <<anyMarker, failedReads>>
    /\ UNCHANGED platform_name
    /\ UNCHANGED notSession

\* channel = client.invoke_shell(width=256); channel.settimeout(15)
SessInvokeShell ==
    /\ spc = "shell"
    /\ spc' = "login"
    /\ UNCHANGED <<script, kind, sclient, sclose, sent, bootstrap, uplinks, idx, if_obj,
                   trans_obj, result, ret, probes, marked, seenUp>>
    /\ UNCHANGED junVars
    /\ UNCHANGED <<anyMarker, failedReads>>
    /\ UNCHANGED platform_name
    /\ UNCHANGED notSession

\* the login handshake: three read_until calls, the username line and, when asked
\* for, the password line
SessLogin ==
    /\ spc = "login"
    /\ spc' = "bootstrap_send"
    /\ UNCHANGED <<script, kind, sclient, sclose, sent, bootstrap, uplinks, idx, if_obj,
                   trans_obj, result, ret, probes, marked, seenUp>>
    /\ UNCHANGED junVars
    /\ UNCHANGED <<anyMarker, failedReads>>
    /\ UNCHANGED platform_name
    /\ UNCHANGED notSession

\* the positions between a successful connect and the final close, where
\* invoke_shell, channel.send, channel.recv or the processing of a response may
\* raise; the function has no try/finally around them
RaisePoints == {"shell", "login", "bootstrap_send", "bootstrap_read", "detail_send",
                "detail_read", "trans_send", "trans_read", "sw_send", "sw_read",
                "xml_send", "xml_read", "chassis_send", "chassis_read", "lacp_send",
                "lacp_read", "ae_send", "ae_read", "ph_send", "ph_read",
                "optics_send", "optics_read"}

\* an exception leaves the function at once; client.close() is not on that path
on_exception(n) == n

SessRaise ==
    /\ spc \in RaisePoints
    /\ spc' = "raised"
    /\ ret' = [how |-> "raised"]
    /\ sclose' = on_exception(sclose)
    /\ sclient' = IF sclose' = sclose THEN sclient ELSE "closed"
    /\ UNCHANGED <<script, kind, sent, bootstrap, uplinks, idx, if_obj,
                   trans_obj, result, probes, marked, seenUp>>
    /\ UNCHANGED junVars
    /\ UNCHANGED <<anyMarker, failedReads>>
    /\ UNCHANGED platform_name
    /\ UNCHANGED notSession

\* send("show interfaces description | json | no-more\r\n")
SendListing ==
    /\ spc = "bootstrap_send"
    /\ sent' = Append(sent, Cmd("listing", ""))
    /\ spc' = "bootstrap_read"
    /\ UNCHANGED <<script, kind, sclient, sclose, bootstrap, uplinks, idx, if_obj,
                   trans_obj, result, ret, probes, marked, seenUp>>
    /\ UNCHANGED junVars
    /\ UNCHANGED <<anyMarker, failedReads>>
    /\ UNCHANGED platform_name
    /\ UNCHANGED notSession

\* desc_data = read_until_json_and_prompt(...); if not desc_data: close, error;
\* uplinks = parse_arista_uplinks(desc_data); if not uplinks: close, return []
ReadListingArista ==
    /\ spc = "bootstrap_read"
    /\ kind = "arista"
    /\ \E desc_data \in {NoData, EmptyObject} \cup ArListings :
          /\ bootstrap' = desc_data.k
          /\ failedReads' = IF desc_data = NoData THEN {Len(sent)} ELSE {}
          /\ anyMarker' = (~Falsy(desc_data) /\ parse_arista_uplinks(desc_data) # <<>>)
          /\ IF Falsy(desc_data)
             THEN /\ sclient' = "closed"
                  /\ sclose' = sclose + 1
                  /\ ret' = [how |-> "error", err |-> "bootstrap"]
                  /\ spc' = "returned"
                  /\ UNCHANGED <<uplinks, idx, probes, marked>>
             ELSE /\ uplinks' = parse_arista_uplinks(desc_data)
                  /\ marked' = {e.name : e \in SeqToSet(parse_arista_uplinks(desc_data))}
                  /\ probes' = [i \in 1..Len(uplinks') |-> Probe(uplinks'[i].name)]
                  /\ IF uplinks' = <<>>
                     THEN /\ sclient' = "closed"
                          /\ sclose' = sclose + 1
                          /\ ret' = [how |-> "list", data |-> <<>>]
                          /\ spc' = "returned"
                          /\ idx' = idx
                     ELSE /\ idx' = 1
                          /\ spc' = "detail_send"
                          /\ UNCHANGED <<sclient, sclose, ret>>
    /\ UNCHANGED <<script, kind, sent, if_obj, trans_obj, result, seenUp>>
    /\ UNCHANGED junVars
    /\ UNCHANGED platform_name
    /\ UNCHANGED notSession

\* send("show interfaces {} | json | no-more\r\n".format(cli_name))
SendDetail ==
    /\ spc = "detail_send"
    /\ sent' = Append(sent, Cmd("detail", uplinks[idx].name))
    /\ spc' = "detail_read"
    /\ UNCHANGED <<script, kind, sclient, sclose, bootstrap, uplinks, idx, if_obj,
                   trans_obj, result, ret, probes, marked, seenUp>>
    /\ UNCHANGED junVars
    /\ UNCHANGED <<anyMarker, failedReads>>
    /\ UNCHANGED platform_name
    /\ UNCHANGED notSession

\* a variant in which a detail read without payload ends the session the way
\* a failed bootstrap read does
ReadDetail_fatal ==
    /\ spc = "detail_read"
    /\ \E truth \in ArDetails(uplinks[idx].description), ok \in BOOLEAN :
          /\ if_obj' = IF ok THEN truth ELSE EmptyIf
          /\ probes' = [probes EXCEPT ![idx] =
                          [@ EXCEPT !.detail = truth,
                                    !.failed = IF ok THEN @ ELSE @ \cup {"detail"}]]
          /\ seenUp' = IF ok /\ OperUp(truth) THEN seenUp \cup {uplinks[idx].name}
                       ELSE seenUp
          /\ failedReads' = IF ok THEN failedReads ELSE failedReads \cup {Len(sent)}
          /\ IF ok
             THEN /\ spc' = "trans_send"
                  /\ UNCHANGED <<sclient, sclose, ret>>
             ELSE /\ sclient' = "closed"
                  /\ sclose' = sclose + 1
                  /\ ret' = [how |-> "error", err |-> "detail"]
                  /\ spc' = "returned"
    /\ UNCHANGED <<script, kind, sent, bootstrap, uplinks, idx,
                   trans_obj, result, marked>>
    /\ UNCHANGED junVars
    /\ UNCHANGED <<anyMarker>>
    /\ UNCHANGED platform_name
    /\ UNCHANGED notSession

\* if_data = read_until_json_and_prompt(...), kept until the transceiver read;
\* if_obj = ((if_data or {}).get("interfaces") or {}).get(iface_name) or {}
ReadDetail ==
    /\ spc = "detail_read"
    /\ \E truth \in ArDetails(uplinks[idx].description), ok \in BOOLEAN :
          /\ if_obj' = IF ok THEN truth ELSE EmptyIf
          /\ probes' = [probes EXCEPT ![idx] =
                          [@ EXCEPT !.detail = truth,
                                    !.failed = IF ok THEN @ ELSE @ \cup {"detail"}]]
          /\ seenUp' = IF ok /\ OperUp(truth) THEN seenUp \cup {uplinks[idx].name}
                       ELSE seenUp
          /\ failedReads' = IF ok THEN failedReads ELSE failedReads \cup {Len(sent)}
    /\ spc' = "trans_send"
    /\ UNCHANGED <<script, kind, sclient, sclose, sent, bootstrap, uplinks, idx,
                   trans_obj, result, ret, marked>>
    /\ UNCHANGED junVars
    /\ UNCHANGED <<anyMarker>>
    /\ UNCHANGED platform_name
    /\ UNCHANGED notSession

\* the loop going from the detail read to the transceiver read with no command
\* sent in between
SendTrans_skip ==
    /\ spc = "trans_send"
    /\ sent' = sent
    /\ spc' = "trans_read"
    /\ UNCHANGED <<script, kind, sclient, sclose, bootstrap, uplinks, idx, if_obj,
                   trans_obj, result, ret, probes, marked, seenUp>>
    /\ UNCHANGED junVars
    /\ UNCHANGED <<anyMarker, failedReads>>
    /\ UNCHANGED platform_name
    /\ UNCHANGED notSession

\* send("show interfaces {} transceiver | json | no-more\r\n".format(cli_name))
SendTrans ==
    /\ spc = "trans_send"
    /\ sent' = Append(sent, Cmd("transceiver", uplinks[idx].name))
    /\ spc' = "trans_read"
    /\ UNCHANGED <<script, kind, sclient, sclose, bootstrap, uplinks, idx, if_obj,
                   trans_obj, result, ret, probes, marked, seenUp>>
    /\ UNCHANGED junVars
    /\ UNCHANGED <<anyMarker, failedReads>>
    /\ UNCHANGED platform_name
    /\ UNCHANGED notSession

\* the end of one turn of the candidate loop
NextCandidate ==
    IF idx < Len(uplinks)
    THEN idx' = idx + 1 /\ spc' = "detail_send"
    ELSE idx' = idx /\ spc' = "close"

\* trans_data = read_until_json_and_prompt(...); then the link-up filter (only in
\* uplinks_stats.py), the test for "bridged", and for the others the row
ReadTrans ==
    /\ spc = "trans_read"
    /\ \E ok \in BOOLEAN :
          /\ trans_obj' = IF ok THEN ArTrans ELSE EmptyTrans
          /\ probes' = [probes EXCEPT ![idx] =
                          [@ EXCEPT !.failed = IF ok THEN @ ELSE @ \cup {"transceiver"}]]
          /\ failedReads' = IF ok THEN failedReads ELSE failedReads \cup {Len(sent)}
    /\ IF script = "uplinks_stats" /\ ~arista_interface_link_up(if_obj)
       THEN /\ NextCandidate
            /\ result' = result
       ELSE IF Lower(if_obj.forwardingModel) = "bridged"
            THEN /\ spc' = "sw_send"
                 /\ UNCHANGED <<idx, result>>
            ELSE /\ result' = Append(result,
                                 arista_row(uplinks[idx], if_obj, trans_obj', "None"))
                 /\ NextCandidate
    /\ UNCHANGED <<script, kind, sclient, sclose, sent, bootstrap, uplinks, if_obj,
                   ret, marked, seenUp>>
    /\ UNCHANGED junVars
    /\ UNCHANGED <<anyMarker>>
    /\ UNCHANGED platform_name
    /\ UNCHANGED notSession

\* send("show interfaces {} switchport configuration source | json | no-more\r\n")
SendSw ==
    /\ spc = "sw_send"
    /\ sent' = Append(sent, Cmd("switchport", uplinks[idx].name))
    /\ spc' = "sw_read"
    /\ UNCHANGED <<script, kind, sclient, sclose, bootstrap, uplinks, idx, if_obj,
                   trans_obj, result, ret, probes, marked, seenUp>>
    /\ UNCHANGED junVars
    /\ UNCHANGED <<anyMarker, failedReads>>
    /\ UNCHANGED platform_name
    /\ UNCHANGED notSession

\* sw_data = read_until_json_and_prompt(...); switchport_config; the row
ReadSw ==
    /\ spc = "sw_read"
    /\ \E ok \in BOOLEAN :
          /\ result' = Append(result,
                          arista_row(uplinks[idx], if_obj, trans_obj,
                                     IF ok THEN "cli-config" ELSE "None"))
          /\ probes' = [probes EXCEPT ![idx] =
                          [@ EXCEPT !.failed = IF ok THEN @ ELSE @ \cup {"switchport"}]]
          /\ failedReads' = IF ok THEN failedReads ELSE failedReads \cup {Len(sent)}
    /\ NextCandidate
    /\ UNCHANGED <<script, kind, sclient, sclose, sent, bootstrap, uplinks, if_obj,
                   trans_obj, ret, marked, seenUp>>
    /\ UNCHANGED junVars
    /\ UNCHANGED <<anyMarker>>
    /\ UNCHANGED platform_name
    /\ UNCHANGED notSession

\* client.close(); return result, None
CloseReturn ==
    /\ spc = "close"
    /\ sclient' = "closed"
    /\ sclose' = sclose + 1
    /\ ret' = [how |-> "list", data |-> result]
    /\ spc' = "returned"
    /\ UNCHANGED <<script, kind, sent, bootstrap, uplinks, idx, if_obj,
                   trans_obj, result, probes, marked, seenUp>>
    /\ UNCHANGED junVars
    /\ UNCHANGED <<anyMarker, failedReads>>
    /\ UNCHANGED platform_name
    /\ UNCHANGED notSession


\* ---- Juniper ----
\* interface names a Junos listing may show, and the string operations the code
\* applies to them
JNamePool == {"et-0/0/1", "ae1.0", "ae1", "et-0/0/1.5"}
\* members a link-aggregation status query may name
JMemberPool == {"et-0/0/2", "et-0/0/3"}
HasDot(n) == n \in {"ae1.0", "et-0/0/1.5", "ae2.0"}
\* name.split(".")[0]
SplitFirst(n) == CASE n = "ae1.0" -> "ae1"
                   [] n = "ae2.0" -> "ae2"
                   [] n = "et-0/0/1.5" -> "et-0/0/1"
                   [] OTHER -> n
\* name.split(".")[-1]
SplitLast(n) == CASE n = "ae1.0" -> "0"
                  [] n = "ae2.0" -> "0"
                  [] n = "et-0/0/1.5" -> "5"
                  [] OTHER -> n
StartsWithAe(n) == n \in {"ae1.0", "ae1", "ae2.0", "ae2"}

\* _juniper_uplink_is_unit0
juniper_uplink_is_unit0(name) ==
    IF name = "" THEN FALSE
    ELSE IF ~HasDot(name) THEN TRUE
    ELSE SplitLast(name) = "0"

\* one physical-interface or logical-interface element of a listing
JEntries == [name : JNamePool, description : Descs, oper : {"up", "down", "None"}]

\* the listings {"interface-information": [{"physical-interface": [...],
\* "logical-interface": [...]}]} with at most MaxJListing interfaces
JListings ==
    {[k |-> "obj", physical |-> ph, logical |-> lg] :
        ph \in {q \in UNION {[1..n -> JEntries] : n \in 0..MaxJListing} :
                   \A i \in 1..Len(q) : ~HasDot(q[i].name)
                                        /\ \A j \in 1..Len(q) : q[i].name = q[j].name => i = j},
        lg \in {q \in UNION {[1..n -> JEntries] : n \in 0..MaxJListing} :
                   \A i \in 1..Len(q) : HasDot(q[i].name)
                                        /\ \A j \in 1..Len(q) : q[i].name = q[j].name => i = j}}

\* the test parse_juniper_uplinks and parse_juniper_uplinks_from_xml apply to
\* one element
juniper_keep(e, require_link_up) ==
    /\ e.name # ""
    /\ HasMarker(e.description)
    /\ ~(require_link_up /\ e.oper # "None" /\ Lower(e.oper) # "up")
    /\ juniper_uplink_is_unit0(e.name)

NameDesc(e) == [name |-> e.name, description |-> e.description]
MapNameDesc(q) == [i \in 1..Len(q) |-> NameDesc(q[i])]

\* parse_juniper_uplinks: the physical interfaces, then the logical ones
parse_juniper_uplinks(json_data, require_link_up) ==
    MapNameDesc(SelectSeq(json_data.physical, LAMBDA e : juniper_keep(e, require_link_up))
                \o SelectSeq(json_data.logical, LAMBDA e : juniper_keep(e, require_link_up)))

\* parse_juniper_uplinks_from_xml over the elements of the reply in document order
parse_juniper_uplinks_from_xml(elems, require_link_up) ==
    MapNameDesc(SelectSeq(elems, LAMBDA e : juniper_keep(e, require_link_up)))

\* the elements of an XML listing: duplicates of a name may occur; the empty
\* sequence is also what an unparseable reply gives
XmlListings == UNION {[1..n -> JEntries] : n \in 0..MaxJListing}

\* [(n, d) for n, d in uplinks if n not in seen and not seen.add(n)]
RECURSIVE dedup_by_name(_, _)
dedup_by_name(q, seen) ==
    IF q = <<>> THEN <<>>
    ELSE IF Head(q).name \in seen THEN dedup_by_name(Tail(q), seen)
    ELSE <<Head(q)>> \o dedup_by_name(Tail(q), seen \cup {Head(q).name})

\* what _parse_juniper_phy_iface keeps of "show interfaces X | display json";
\* the interface is up or down, and has the marked description or none
JDetail(oper, desc) ==
    [present |-> TRUE, description |-> desc, lineProtocolStatus |-> oper,
     interfaceStatus |-> oper, forwardingModel |-> "None", bandwidth |-> "100G"]
JDetails == {JDetail(o, d) : o \in {"up", "down"}, d \in {"Uplink: ISP-1", ""}}

\* the sequences list(seen) may give for the members found by
\* _juniper_lacp_member_names
JMemberLists == DistinctSeqs(JMemberPool, MaxMembers)

\* the row dicts of get_juniper_uplink_stats
juniper_row(name, desc, stats, tx, media, agg, logical, lag) ==
    [name |-> name,
     description |-> desc,
     mediaType |-> media,
     bandwidth |-> stats.bandwidth,
     txPower |-> tx,
     forwardingModel |-> stats.forwardingModel,
     switchportConfiguration |-> "None",
     physicalInterface |-> name,
     aggregateInterface |-> agg,
     logicalInterface |-> logical,
     isLag |-> lag]

\* what a listing showed of the candidates kept from it: the names it gave with
\* the marker, and the names it gave as operationally up
ShownMarked(elems, cands) ==
    {e.name : e \in {x \in SeqToSet(elems) :
        HasMarker(x.description) /\ \E i \in 1..Len(cands) : cands[i].name = x.name}}
ShownUp(elems, cands) ==
    {e.name : e \in {x \in SeqToSet(elems) :
        x.oper = "up" /\ \E i \in 1..Len(cands) : cands[i].name = x.name}}

\* desc_data = read_until_json_and_prompt(...); if not desc_data: close, error;
\* uplinks = parse_juniper_uplinks(desc_data, require_link_up=True)
ReadListingJuniper ==
    /\ spc = "bootstrap_read"
    /\ kind = "juniper"
    /\ \E desc_data \in {NoData, EmptyObject} \cup JListings :
          /\ bootstrap' = desc_data.k
          /\ failedReads' = IF desc_data = NoData THEN {Len(sent)} ELSE {}
          /\ anyMarker' = (~Falsy(desc_data)
                           /\ \E e \in SeqToSet(desc_data.physical \o desc_data.logical) :
                                  HasMarker(e.description))
          /\ IF Falsy(desc_data)
             THEN /\ sclient' = "closed"
                  /\ sclose' = sclose + 1
                  /\ ret' = [how |-> "error", err |-> "bootstrap"]
                  /\ spc' = "returned"
                  /\ UNCHANGED <<uplinks, marked, seenUp>>
             ELSE /\ uplinks' = parse_juniper_uplinks(desc_data, TRUE)
                  /\ marked' = ShownMarked(desc_data.physical \o desc_data.logical, uplinks')
                  /\ seenUp' = ShownUp(desc_data.physical \o desc_data.logical, uplinks')
                  /\ spc' = IF uplinks' = <<>> THEN "xml_send" ELSE "chassis_send"
                  /\ UNCHANGED <<sclient, sclose, ret>>
    /\ UNCHANGED <<script, kind, sent, idx, if_obj, trans_obj, junVars, result, probes>>
    /\ UNCHANGED platform_name
    /\ UNCHANGED notSession

\* send("show interfaces descriptions | display xml | no-more\r\n")
SendXml ==
    /\ spc = "xml_send"
    /\ sent' = Append(sent, Cmd("listing-xml", ""))
    /\ spc' = "xml_read"
    /\ UNCHANGED <<script, kind, sclient, sclose, bootstrap, uplinks, idx, if_obj,
                   trans_obj, junVars, result, ret, probes, marked, seenUp>>
    /\ UNCHANGED <<anyMarker, failedReads>>
    /\ UNCHANGED platform_name
    /\ UNCHANGED notSession

\* xml_text = read_until_prompt(...); the rpc-reply is parsed, every
\* interface-information root is searched, the names are deduplicated;
\* if not uplinks: close, return []
ReadXml ==
    /\ spc = "xml_read"
    /\ \E elems \in XmlListings :
          /\ uplinks' = dedup_by_name(uplinks \o parse_juniper_uplinks_from_xml(elems, TRUE), {})
          /\ marked' = marked \cup ShownMarked(elems, uplinks')
          /\ anyMarker' = (anyMarker \/ \E e \in SeqToSet(elems) : HasMarker(e.description))
          /\ failedReads' = IF elems = <<>> THEN failedReads \cup {Len(sent)} ELSE failedReads
          /\ seenUp' = seenUp \cup ShownUp(elems, uplinks')
    /\ IF uplinks' = <<>>
       THEN /\ sclient' = "closed"
            /\ sclose' = sclose + 1
            /\ ret' = [how |-> "list", data |-> <<>>]
            /\ spc' = "returned"
       ELSE /\ spc' = "chassis_send"
            /\ UNCHANGED <<sclient, sclose, ret>>
    /\ UNCHANGED <<script, kind, sent, bootstrap, idx, if_obj, trans_obj, junVars,
                   result, probes>>
    /\ UNCHANGED platform_name
    /\ UNCHANGED notSession

\* send("show chassis hardware | display json | no-more\r\n")
SendChassis ==
    /\ spc = "chassis_send"
    /\ sent' = Append(sent, Cmd("chassis", ""))
    /\ spc' = "chassis_read"
    /\ UNCHANGED <<script, kind, sclient, sclose, bootstrap, uplinks, idx, if_obj,
                   trans_obj, junVars, result, ret, probes, marked, seenUp>>
    /\ UNCHANGED <<anyMarker, failedReads>>
    /\ UNCHANGED platform_name
    /\ UNCHANGED notSession

\* chassis_hw = read_until_json_and_prompt(...); result = []; the loop starts
ReadChassis ==
    /\ spc = "chassis_read"
    /\ chassis_hw' \in {NoData, [k |-> "obj"]}
    /\ failedReads' = IF Falsy(chassis_hw') THEN failedReads \cup {Len(sent)} ELSE failedReads
    /\ idx' = 1
    /\ spc' = "candidate"
    /\ UNCHANGED <<script, kind, sclient, sclose, sent, bootstrap, uplinks, if_obj,
                   trans_obj, aggregate_name, physical_names, midx, aggregates_added,
                   result, ret, probes, marked, seenUp>>
    /\ UNCHANGED <<anyMarker>>
    /\ UNCHANGED platform_name
    /\ UNCHANGED notSession

\* the head of "for logical_name, desc in uplinks": is_physical, aggregate_name,
\* physical_names, up to the first command of the candidate (or, for a candidate
\* that needs none, to the end of its turn); after the last candidate, the close
JCandidate ==
    /\ spc = "candidate"
    /\ IF idx > Len(uplinks)
       THEN /\ spc' = "close"
            /\ UNCHANGED <<idx, aggregate_name, physical_names, midx>>
       ELSE LET logical_name == uplinks[idx].name
                is_physical == ~HasDot(logical_name) /\ ~StartsWithAe(logical_name)
            IN IF is_physical
               THEN /\ physical_names' = <<logical_name>>
                    /\ aggregate_name' = "None"
                    /\ midx' = 1
                    /\ spc' = "ph_send"
                    /\ idx' = idx
               ELSE /\ aggregate_name' = IF HasDot(logical_name)
                                         THEN SplitFirst(logical_name) ELSE "None"
                    /\ physical_names' = <<>>
                    /\ midx' = 1
                    /\ IF aggregate_name' # "None"
                       THEN spc' = "lacp_send" /\ idx' = idx
                       ELSE spc' = "candidate" /\ idx' = idx + 1
    /\ UNCHANGED <<script, kind, sclient, sclose, sent, bootstrap, uplinks, if_obj,
                   trans_obj, chassis_hw, aggregates_added, result, ret, probes,
                   marked, seenUp>>
    /\ UNCHANGED <<anyMarker, failedReads>>
    /\ UNCHANGED platform_name
    /\ UNCHANGED notSession

\* send("show lacp interfaces {} | display json | no-more\r\n".format(aggregate_name))
SendLacp ==
    /\ spc = "lacp_send"
    /\ sent' = Append(sent, Cmd("lacp", aggregate_name))
    /\ spc' = "lacp_read"
    /\ UNCHANGED <<script, kind, sclient, sclose, bootstrap, uplinks, idx, if_obj,
                   trans_obj, junVars, result, ret, probes, marked, seenUp>>
    /\ UNCHANGED <<anyMarker, failedReads>>
    /\ UNCHANGED platform_name
    /\ UNCHANGED notSession

\* where the turn of a candidate goes once its aggregate row is settled: to the
\* next physical interface, or to the next candidate
AfterAggregate(names) ==
    IF names = <<>>
    THEN spc' = "candidate" /\ idx' = idx + 1
    ELSE spc' = "ph_send" /\ idx' = idx

\* lacp_data = read_until_json_and_prompt(...);
\* physical_names = _juniper_lacp_member_names(lacp_data) if lacp_data else []
ReadLacp ==
    /\ spc = "lacp_read"
    /\ \E lacp_data \in {NoData} \cup {[k |-> "obj", members |-> m] : m \in JMemberLists} :
          /\ physical_names' = IF Falsy(lacp_data) THEN <<>> ELSE lacp_data.members
          /\ failedReads' = IF Falsy(lacp_data) THEN failedReads \cup {Len(sent)}
                            ELSE failedReads
    /\ IF aggregate_name \notin aggregates_added
       THEN spc' = "ae_send" /\ idx' = idx
       ELSE AfterAggregate(physical_names')
    /\ UNCHANGED <<script, kind, sclient, sclose, sent, bootstrap, uplinks, if_obj,
                   trans_obj, chassis_hw, aggregate_name, midx, aggregates_added,
                   result, ret, probes, marked, seenUp>>
    /\ UNCHANGED <<anyMarker>>
    /\ UNCHANGED platform_name
    /\ UNCHANGED notSession

\* send("show interfaces {} | display json | no-more\r\n".format(aggregate_name))
SendAe ==
    /\ spc = "ae_send"
    /\ sent' = Append(sent, Cmd("detail", aggregate_name))
    /\ spc' = "ae_read"
    /\ UNCHANGED <<script, kind, sclient, sclose, bootstrap, uplinks, idx, if_obj,
                   trans_obj, junVars, result, ret, probes, marked, seenUp>>
    /\ UNCHANGED <<anyMarker, failedReads>>
    /\ UNCHANGED platform_name
    /\ UNCHANGED notSession

\* ae_data = read_until_json_and_prompt(...); ae_stats; agg_row with isLag
ReadAe ==
    /\ spc = "ae_read"
    /\ \E truth \in JDetails, ok \in BOOLEAN :
          LET ae_stats == IF ok THEN truth ELSE EmptyIf
          IN /\ result' = Append(result,
                    juniper_row(aggregate_name, ae_stats.description,
                                ae_stats, "None", "None", aggregate_name,
                                uplinks[idx].name, TRUE))
             /\ seenUp' = IF ok /\ truth.lineProtocolStatus = "up"
                          THEN seenUp \cup {aggregate_name} ELSE seenUp
             /\ marked' = IF ok /\ HasMarker(truth.description)
                          THEN marked \cup {aggregate_name} ELSE marked
             /\ failedReads' = IF ok THEN failedReads ELSE failedReads \cup {Len(sent)}
    /\ aggregates_added' = aggregates_added \cup {aggregate_name}
    /\ AfterAggregate(physical_names)
    /\ UNCHANGED <<script, kind, sclient, sclose, sent, bootstrap, uplinks, if_obj,
                   trans_obj, chassis_hw, aggregate_name, physical_names, midx,
                   ret, probes>>
    /\ UNCHANGED <<anyMarker>>
    /\ UNCHANGED platform_name
    /\ UNCHANGED notSession

\* send("show interfaces {} | display json | no-more\r\n".format(physical_name))
SendPh ==
    /\ spc = "ph_send"
    /\ sent' = Append(sent, Cmd("detail", physical_names[midx]))
    /\ spc' = "ph_read"
    /\ UNCHANGED <<script, kind, sclient, sclose, bootstrap, uplinks, idx, if_obj,
                   trans_obj, junVars, result, ret, probes, marked, seenUp>>
    /\ UNCHANGED <<anyMarker, failedReads>>
    /\ UNCHANGED platform_name
    /\ UNCHANGED notSession

\* ph_data = read_until_json_and_prompt(...); physical_stats
ReadPh ==
    /\ spc = "ph_read"
    /\ \E truth \in JDetails, ok \in BOOLEAN :
          /\ if_obj' = IF ok THEN truth ELSE EmptyIf
          /\ seenUp' = IF ok /\ truth.lineProtocolStatus = "up"
                       THEN seenUp \cup {physical_names[midx]} ELSE seenUp
          /\ marked' = IF ok /\ HasMarker(truth.description)
                       THEN marked \cup {physical_names[midx]} ELSE marked
          /\ failedReads' = IF ok THEN failedReads ELSE failedReads \cup {Len(sent)}
    /\ spc' = "optics_send"
    /\ UNCHANGED <<script, kind, sclient, sclose, sent, bootstrap, uplinks, idx,
                   trans_obj, junVars, result, ret, probes>>
    /\ UNCHANGED <<anyMarker>>
    /\ UNCHANGED platform_name
    /\ UNCHANGED notSession

\* tx_power = physical_stats.get("txPower") is always None, so:
\* send("show interfaces diagnostics optics {} | display json | no-more\r\n")
SendOptics ==
    /\ spc = "optics_send"
    /\ sent' = Append(sent, Cmd("optics", physical_names[midx]))
    /\ spc' = "optics_read"
    /\ UNCHANGED <<script, kind, sclient, sclose, bootstrap, uplinks, idx, if_obj,
                   trans_obj, junVars, result, ret, probes, marked, seenUp>>
    /\ UNCHANGED <<anyMarker, failedReads>>
    /\ UNCHANGED platform_name
    /\ UNCHANGED notSession

\* ReadOptics with a failed optics read abandoning the row of the interface
ReadOptics_drop ==
    /\ spc = "optics_read"
    /\ \E ok \in BOOLEAN :
          /\ failedReads' = IF ok THEN failedReads ELSE failedReads \cup {Len(sent)}
          /\ result' = IF ok
                       THEN Append(result,
                              juniper_row(physical_names[midx],
                                  IF if_obj.present /\ if_obj.description # ""
                                  THEN if_obj.description ELSE uplinks[idx].description,
                                  if_obj, "-1.5",
                                  IF ~Falsy(chassis_hw) THEN "QSFP-100G-LR4" ELSE "None",
                                  aggregate_name, uplinks[idx].name, FALSE))
                       ELSE result
    /\ IF midx < Len(physical_names)
       THEN midx' = midx + 1 /\ spc' = "ph_send" /\ idx' = idx
       ELSE midx' = midx /\ spc' = "candidate" /\ idx' = idx + 1
    /\ UNCHANGED <<script, kind, sclient, sclose, sent, bootstrap, uplinks, if_obj,
                   trans_obj, chassis_hw, aggregate_name, physical_names,
                   aggregates_added, ret, probes, marked, seenUp>>
    /\ UNCHANGED <<anyMarker>>
    /\ UNCHANGED platform_name
    /\ UNCHANGED notSession

\* optics_data = read_until_json_and_prompt(...); tx_power; media_type from the
\* chassis inventory; the row; then the next physical interface or candidate
ReadOptics ==
    /\ spc = "optics_read"
    /\ \E ok \in BOOLEAN :
          /\ failedReads' = IF ok THEN failedReads ELSE failedReads \cup {Len(sent)}
          /\ result' = Append(result,
              juniper_row(physical_names[midx],
                          IF if_obj.present /\ if_obj.description # ""
                          THEN if_obj.description ELSE uplinks[idx].description,
                          if_obj,
                          IF ok THEN "-1.5" ELSE "None",
                          IF ~Falsy(chassis_hw) THEN "QSFP-100G-LR4" ELSE "None",
                          aggregate_name, uplinks[idx].name, FALSE))
    /\ IF midx < Len(physical_names)
       THEN midx' = midx + 1 /\ spc' = "ph_send" /\ idx' = idx
       ELSE midx' = midx /\ spc' = "candidate" /\ idx' = idx + 1
    /\ UNCHANGED <<script, kind, sclient, sclose, sent, bootstrap, uplinks, if_obj,
                   trans_obj, chassis_hw, aggregate_name, physical_names,
                   aggregates_added, ret, probes, marked, seenUp>>
    /\ UNCHANGED <<anyMarker>>
    /\ UNCHANGED platform_name
    /\ UNCHANGED notSession

SessionNext ==
    \/ Dispatch
    \/ SessConnectOk
    \/ SessConnectFail
    \/ SessInvokeShell
    \/ SessLogin
    \/ SessRaise
    \/ SendListing
    \/ ReadListingArista
    \/ SendDetail
    \/ ReadDetail
    \/ SendTrans
    \/ ReadTrans
    \/ SendSw
    \/ ReadSw
    \/ CloseReturn
    \/ ReadListingJuniper
    \/ SendXml
    \/ ReadXml
    \/ SendChassis
    \/ ReadChassis
    \/ JCandidate
    \/ SendLacp
    \/ ReadLacp
    \/ SendAe
    \/ ReadAe
    \/ SendPh
    \/ ReadPh
    \/ SendOptics
    \/ ReadOptics

SpecSession == SessionInit /\ [][SessionNext]_vars

(***************************************************************************)
(* The channel of one session: the device writes its output in chunks of   *)
(* any size at any time, read_until_json_and_prompt collects them. A byte  *)
(* is [c, ch]: the command whose response it belongs to, and what it is:   *)
(* "{" and "}" are braces, "#" is a prompt character ('#' or '>'), "x" is  *)
(* any other text, "!" is text that makes the enclosing object invalid     *)
(* JSON.                                                                   *)
(***************************************************************************)
\* the commands one modelled session sends
MaxCmds == 2
\* the timeout argument of read_until_json_and_prompt, in seconds (scaled)
CommandTimeout == 5
\* "time.monotonic() - last_data > 3"
IdleTimeout == 3

Byte(c, ch) == [c |-> c, ch |-> ch]
Tagged(c, chars) == [i \in 1..Len(chars) |-> Byte(c, chars[i])]

\* what a device may answer to a command: echo, object and prompt; an object
\* one of whose strings holds a prompt character; an error text and the
\* prompt; an object that is not valid JSON
Responses ==
    {<<"x", "{", "}", "#">>,
     <<"{", "#", "}", "#">>,
     <<"x", "#">>,
     <<"{", "!", "}", "#">>}

\* text.find("{"), counted from 1; 0 when there is none
FindBrace(text) ==
    IF \E i \in 1..Len(text) : text[i].ch = "{"
    THEN CHOOSE i \in 1..Len(text) :
            text[i].ch = "{" /\ \A j \in 1..(i - 1) : text[j].ch # "{"
    ELSE 0

\* a variant of the scan that takes the last "}" of the text
BalancedEnd_last(text, i, depth) ==
    IF \E j \in 1..Len(text) : text[j].ch = "}"
    THEN CHOOSE j \in 1..Len(text) :
            text[j].ch = "}" /\ \A m \in (j + 1)..Len(text) : text[m].ch # "}"
    ELSE 0

\* the loop of extract_json from position i with the depth so far: the
\* position of the "}" that brings the depth to zero, or 0
RECURSIVE BalancedEnd(_, _, _)
BalancedEnd(text, i, depth) ==
    IF i > Len(text) THEN 0
    ELSE IF text[i].ch = "{" THEN BalancedEnd(text, i + 1, depth + 1)
    ELSE IF text[i].ch = "}"
         THEN IF depth - 1 = 0 THEN i ELSE BalancedEnd(text, i + 1, depth - 1)
    ELSE BalancedEnd(text, i + 1, depth)

\* The JSON of the model: an object is "{", items, "}"; an item is an object, a
\* string (from one "q" to the next, whatever is between them) or a character
\* that stands for a key or a scalar; "!" is what no JSON text has.
\* The position of the quote that closes a string opened before i, or 0
StringEnd(t, i) ==
    IF \E j \in i..Len(t) : t[j].ch = "q"
    THEN CHOOSE j \in i..Len(t) : t[j].ch = "q" /\ \A m \in i..(j - 1) : t[m].ch # "q"
    ELSE 0

RECURSIVE Join(_)
Join(chars) == IF chars = <<>> THEN "" ELSE Head(chars).ch \o Join(Tail(chars))

ParseFail == [ok |-> FALSE, val |-> <<>>, next |-> 0]

\* the items of an object from position i up to its closing brace: the values
\* read (a string is one value) and the position after the brace
RECURSIVE ParseItems(_, _)
ParseItems(t, i) ==
    IF i > Len(t) THEN ParseFail
    ELSE IF t[i].ch = "}" THEN [ok |-> TRUE, val |-> <<"}">>, next |-> i + 1]
    ELSE IF t[i].ch = "!" THEN ParseFail
    ELSE LET item ==
                 IF t[i].ch = "{"
                 THEN LET inner == ParseItems(t, i + 1)
                      IN [ok |-> inner.ok, val |-> <<"{">> \o inner.val, next |-> inner.next]
                 ELSE IF t[i].ch = "q"
                 THEN LET j == StringEnd(t, i + 1)
                      IN IF j = 0 THEN ParseFail
                         ELSE [ok |-> TRUE,
                               val |-> <<"q" \o Join(SubSeq(t, i + 1, j - 1))>>,
                               next |-> j + 1]
                 ELSE [ok |-> TRUE, val |-> <<t[i].ch>>, next |-> i + 1]
         IN IF ~item.ok THEN ParseFail
            ELSE LET rest == ParseItems(t, item.next)
                 IN IF ~rest.ok THEN ParseFail
                    ELSE [ok |-> TRUE, val |-> item.val \o rest.val, next |-> rest.next]

\* json.loads of a slice: the object (its values, and the command it answers),
\* or JSONDecodeError
json_loads(slice) ==
    IF slice = <<>> \/ slice[1].ch # "{" THEN NoData
    ELSE LET p == ParseItems(slice, 2)
         IN IF p.ok /\ p.next = Len(slice) + 1
            THEN [k |-> "obj", of |-> slice[1].c, val |-> <<"{">> \o p.val]
            ELSE NoData

\* extract_json
extract_json(text) ==
    LET start == FindBrace(text)
    IN IF start = 0 THEN NoData
       ELSE LET end == BalancedEnd(text, start, 0)
            IN IF end = 0 THEN NoData
               ELSE json_loads(SubSeq(text, start, end))

\* '"#" in text or ">" in text'
HasPromptChar(text) == \E i \in 1..Len(text) : text[i].ch = "#"

ChannelInit ==
    /\ cmdNo = 0
    /\ devOut = <<>>
    /\ wire = <<>>
    /\ buf = <<>>
    /\ rpc = "ready"
    /\ waited = 0
    /\ quiet = 0
    /\ answers = <<>>
    /\ sentOver = {}
    /\ FleetIdle
    /\ SessionIdle
    /\ LoginIdle
    /\ FunIdle

\* send(command); then read_until_json_and_prompt starts: buf = [],
\* deadline and last_data are set. The device will answer the command.
ChSend ==
    /\ rpc = "ready"
    /\ cmdNo < MaxCmds
    /\ cmdNo' = cmdNo + 1
    /\ \E r \in Responses : devOut' = devOut \o Tagged(cmdNo + 1, r)
    /\ sentOver' = IF devOut \o wire # <<>> THEN sentOver \cup {cmdNo + 1} ELSE sentOver
    /\ buf' = <<>>
    /\ waited' = 0
    /\ quiet' = 0
    /\ rpc' = "reading"
    /\ UNCHANGED <<wire, answers>>
    /\ UNCHANGED notChannel

\* the device writes the next n bytes of its output
DevEmit ==
    /\ rpc # "closed"
    /\ devOut # <<>>
    /\ \E n \in 1..Len(devOut) :
          /\ wire' = wire \o SubSeq(devOut, 1, n)
          /\ devOut' = SubSeq(devOut, n + 1, Len(devOut))
    /\ UNCHANGED <<cmdNo, buf, rpc, waited, quiet, answers, sentOver>>
    /\ UNCHANGED notChannel

\* a variant whose idle break does not ask for received data
ReaderTurnEnds_nobuf(text, idle) ==
    IF HasPromptChar(text) /\ extract_json(text) # NoData
    THEN /\ answers' = Append(answers, extract_json(text))
         /\ rpc' = "ready"
    ELSE IF idle > IdleTimeout
    THEN /\ answers' = Append(answers, extract_json(text))
         /\ rpc' = "ready"
    ELSE /\ answers' = answers
         /\ rpc' = "reading"

\* the end of one turn of the while loop, with the text and the idle time the
\* turn arrived at: return the object, or break and return what extract_json
\* gives, or go round again
ReaderTurnEnds(text, idle) ==
    IF HasPromptChar(text) /\ extract_json(text) # NoData
    THEN /\ answers' = Append(answers, extract_json(text))
         /\ rpc' = "ready"
    ELSE IF idle > IdleTimeout /\ text # <<>>
    THEN /\ answers' = Append(answers, extract_json(text))
         /\ rpc' = "ready"
    ELSE /\ answers' = answers
         /\ rpc' = "reading"

\* a turn with channel.recv_ready(): chunk = channel.recv(65536)
ReaderRecv ==
    /\ rpc = "reading"
    /\ waited < CommandTimeout
    /\ wire # <<>>
    /\ buf' = buf \o wire
    /\ wire' = <<>>
    /\ quiet' = 0
    /\ ReaderTurnEnds(buf', 0)
    /\ UNCHANGED <<cmdNo, devOut, waited, sentOver>>
    /\ UNCHANGED notChannel

\* a variant whose clock stands still
ReaderSleep_noclock ==
    /\ rpc = "reading"
    /\ waited < CommandTimeout
    /\ wire = <<>>
    /\ ReaderTurnEnds(buf, quiet)
    /\ UNCHANGED <<cmdNo, devOut, wire, buf, waited, quiet, sentOver>>
    /\ UNCHANGED notChannel

\* turns without data, time.sleep(0.15) each, until a second has passed
ReaderSleep ==
    /\ rpc = "reading"
    /\ waited < CommandTimeout
    /\ wire = <<>>
    /\ waited' = waited + 1
    /\ quiet' = quiet + 1
    /\ ReaderTurnEnds(buf, quiet + 1)
    /\ UNCHANGED <<cmdNo, devOut, wire, buf, sentOver>>
    /\ UNCHANGED notChannel

\* the deadline has passed: return extract_json("".join(buf))
ReaderDeadline ==
    /\ rpc = "reading"
    /\ waited >= CommandTimeout
    /\ answers' = Append(answers, extract_json(buf))
    /\ rpc' = "ready"
    /\ UNCHANGED <<cmdNo, devOut, wire, buf, waited, quiet, sentOver>>
    /\ UNCHANGED notChannel

\* client.close() after the last command
ChClose ==
    /\ rpc = "ready"
    /\ cmdNo = MaxCmds
    /\ rpc' = "closed"
    /\ UNCHANGED <<cmdNo, devOut, wire, buf, waited, quiet, answers, sentOver>>
    /\ UNCHANGED notChannel

ChannelNext ==
    \/ ChSend
    \/ DevEmit
    \/ ReaderRecv
    \/ ReaderSleep
    \/ ReaderDeadline
    \/ ChClose

SpecChannel == ChannelInit /\ [][ChannelNext]_vars

\* The worker's thread keeps running: whatever step of the worker is possible is
\* taken in the end. Nothing is asked of the device, which may fall silent for
\* good at any point.
WorkerStep ==
    \/ ChSend
    \/ ReaderRecv
    \/ ReaderSleep
    \/ ReaderDeadline
    \/ ChClose

SpecChannelFair == ChannelInit /\ [][ChannelNext]_vars /\ WF_vars(WorkerStep)

\* every behaviour of the fair specification ends with the session closed
EventuallyClosed == <>(rpc = "closed" /\ Len(answers) = MaxCmds)

\* what is left of the session: the commands still to send, the seconds the
\* running read may still wait, and the output still to be moved
ChannelMeasure ==
    (MaxCmds - cmdNo) * 100
    + (CASE rpc = "closed" -> 0
         [] rpc = "ready" -> 1
         [] OTHER -> 2 + Max(0, CommandTimeout - waited))
    + 2 * Len(devOut) + Len(wire)

\* C15: whatever the device writes and wherever it stops writing, a read with
\* nothing to receive still has a step to take (the clock moves, the read
\* returns), between two reads the worker can send or close, every step brings
\* the close nearer, and at the close every command has its result (an object
\* or no data). No step of the device is needed for any of this.
C15_SilenceEndsInClose ==
    /\ []((rpc = "reading" /\ wire = <<>>) => ENABLED <<ReaderSleep \/ ReaderDeadline>>_vars)
    /\ [](rpc = "ready" => ENABLED <<ChSend \/ ChClose>>_vars)
    /\ [][ChannelMeasure' < ChannelMeasure]_vars
    /\ [](rpc = "closed" => Len(answers) = MaxCmds)

\* the session was closed with a device that never wrote the output it owed:
\* every read of the session ended without data
C15_Witness ==
    /\ rpc = "closed"
    /\ devOut # <<>>
    /\ wire = <<>>
    /\ Len(answers) = MaxCmds
    /\ \A i \in 1..Len(answers) : answers[i] = NoData

\* a step in which the running read returns
ReadReturns == rpc = "reading" /\ rpc' = "ready"

\* C16: a read returns before its deadline only (a) with a text that has a
\* prompt character and a balanced object that parses, or (b) with some text
\* received and more than the idle timeout without new bytes; a read that has
\* received nothing returns at the deadline only.
C16_EarlyReturnCases ==
    [][ReadReturns =>
          /\ \/ waited' >= CommandTimeout
             \/ HasPromptChar(buf') /\ extract_json(buf') # NoData /\ answers' = Append(answers, extract_json(buf'))
             \/ buf' # <<>> /\ quiet' > IdleTimeout
          /\ buf' = <<>> => waited' >= CommandTimeout /\ answers' = Append(answers, NoData)]_vars

\* a read has returned on the idle break, before its deadline, with a text from
\* which no object can be extracted
C16_Witness ==
    /\ rpc = "ready"
    /\ cmdNo >= 1
    /\ waited < CommandTimeout
    /\ quiet > IdleTimeout
    /\ buf # <<>>
    /\ extract_json(buf) = NoData

\* C4: no command is written to the channel while output of an earlier
\* command is still unread, whether it has arrived or is yet to arrive.
C4_ResponseReadBeforeNextSend == sentOver = {}

\* C34: the object a read returns to the step that sent the i-th command is
\* of the device's response to the i-th command, never of the response to an
\* earlier one, however late the device writes.
C34_AnswerOfOwnCommand ==
    \A i \in 1..Len(answers) : answers[i].k = "obj" => answers[i].of = i

\* the same for the reads that began with no output of an earlier command
\* unread or still to come
AnswerOfOwnCommandOnQuietChannel ==
    \A i \in 1..Len(answers) :
        (answers[i].k = "obj" /\ i \notin sentOver) => answers[i].of = i

\* the second read returned an object after the first had ended without one
LateAnswerWitness ==
    /\ Len(answers) = 2
    /\ answers[1] = NoData
    /\ answers[2].k = "obj"
    /\ answers[2].of = 2

(***************************************************************************)
(* The login handshake of get_arista_uplink_stats / get_juniper_uplink_    *)
(* stats: three read_until calls, the username line, the password line,    *)
(* and then the first command. The device writes pieces of text at any     *)
(* time; a piece is known by the patterns it contains.                     *)
(***************************************************************************)
\* pieces the device may write during the login
MaxLoginOut == 3
\* max_wait of the three read_until calls, in seconds
MaxWait1 == 20
MaxWait2 == 20
MaxWait3 == 25

\* "Welcome" has none of the patterns; "PASSWORD:" has the ':' only, and the
\* password token once lowered
LoginPieces == {"Welcome", "login: ", "Password: ", "PASSWORD: ", "host#"}

\* p in piece, for the patterns of the three calls
PieceHas(piece, pat) ==
    CASE piece = "login: " -> pat \in {":", "login"}
      [] piece = "Password: " -> pat \in {":", "Password"}
      [] piece = "PASSWORD: " -> pat \in {":"}
      [] piece = "host#" -> pat \in {"#"}
      [] OTHER -> FALSE

\* p in piece.lower()
LowerPieceHas(piece, pat) ==
    CASE piece = "login: " -> pat \in {":", "login"}
      [] piece = "Password: " -> pat \in {":", "password"}
      [] piece = "PASSWORD: " -> pat \in {":", "password"}
      [] piece = "host#" -> pat \in {"#"}
      [] OTHER -> FALSE

\* the patterns argument of the w-th read_until call
Patterns(w) ==
    CASE w = 1 -> {">", "#", ":", "login", "Login", "Password", "password"}
      [] w = 2 -> {">", "#", "password", "Password", "login", "Login"}
      [] OTHER -> {">", "#"}

\* the max_wait argument of the w-th read_until call
max_wait(w) == CASE w = 1 -> MaxWait1 [] w = 2 -> MaxWait2 [] OTHER -> MaxWait3

\* "for p in patterns: if p in text"
TextHasAny(text, pats) ==
    \E i \in 1..Len(text) : \E pat \in pats : PieceHas(text[i], pat)

\* a variant that sends the password whatever was received
asks_password_always(text) == TRUE

\* '"password" in out_after_user.lower() or "Password" in out_after_user'
asks_password(text) ==
    \E i \in 1..Len(text) :
        LowerPieceHas(text[i], "password") \/ PieceHas(text[i], "Password")

LoginInit ==
    /\ lpc = "wait"
    /\ lwait = 1
    /\ ldev \in UNION {[1..n -> LoginPieces] : n \in 0..MaxLoginOut}
    /\ lwire = <<>>
    /\ lbuf = <<>>
    /\ lelapsed = 0
    /\ out_after_user = <<>>
    /\ lsent = <<>>
    /\ expired = {}
    /\ promptSeen = FALSE
    /\ FleetIdle
    /\ SessionIdle
    /\ ChannelIdle
    /\ FunIdle

\* the device writes its next piece
LDevEmit ==
    /\ lpc \notin {"done", "raised"}
    /\ ldev # <<>>
    /\ lwire' = Append(lwire, Head(ldev))
    /\ ldev' = Tail(ldev)
    /\ UNCHANGED <<lpc, lwait, lbuf, lelapsed, out_after_user, lsent, expired, promptSeen>>
    /\ UNCHANGED notLogin

\* what follows the return of the w-th read_until with the given text
AfterRead(w, text) ==
    /\ lpc' = CASE w = 1 -> "send_user" [] w = 2 -> "password" [] OTHER -> "send_listing"
    /\ out_after_user' = IF w = 2 THEN text ELSE out_after_user
    /\ promptSeen' = (promptSeen \/ TextHasAny(text, {">", "#"}))

\* read_until, a turn with recv_ready(): the chunk is appended, and the text
\* is returned if it holds one of the patterns
LReadRecv ==
    /\ lpc = "wait"
    /\ lelapsed < max_wait(lwait)
    /\ lwire # <<>>
    /\ lbuf' = lbuf \o lwire
    /\ lwire' = <<>>
    /\ IF TextHasAny(lbuf', Patterns(lwait))
       THEN AfterRead(lwait, lbuf')
       ELSE UNCHANGED <<lpc, out_after_user, promptSeen>>
    /\ UNCHANGED <<lwait, ldev, lelapsed, lsent, expired>>
    /\ UNCHANGED notLogin

\* read_until, turns without data, time.sleep(0.2) each, until a second has
\* passed
LReadSleep ==
    /\ lpc = "wait"
    /\ lelapsed < max_wait(lwait)
    /\ lwire = <<>>
    /\ lelapsed' = lelapsed + 1
    /\ UNCHANGED <<lpc, lwait, ldev, lwire, lbuf, out_after_user, lsent, expired,
                   promptSeen>>
    /\ UNCHANGED notLogin

\* read_until, the deadline has passed: return "".join(buf)
LReadDeadline ==
    /\ lpc = "wait"
    /\ lelapsed >= max_wait(lwait)
    /\ expired' = expired \cup {lwait}
    /\ AfterRead(lwait, lbuf)
    /\ UNCHANGED <<lwait, ldev, lwire, lbuf, lelapsed, lsent>>
    /\ UNCHANGED notLogin

\* send(username + "\r\n"); time.sleep(0.5); the second read_until begins
LSendUser ==
    /\ lpc = "send_user"
    /\ lsent' = Append(lsent, "username")
    /\ lpc' = "wait"
    /\ lwait' = 2
    /\ lbuf' = <<>>
    /\ lelapsed' = 0
    /\ UNCHANGED <<ldev, lwire, out_after_user, expired, promptSeen>>
    /\ UNCHANGED notLogin

\* the test on out_after_user; send(password + "\r\n") and time.sleep(0.8) if
\* it asks for the password; the third read_until begins
LPassword ==
    /\ lpc = "password"
    /\ lsent' = IF asks_password(out_after_user) THEN Append(lsent, "password") ELSE lsent
    /\ lpc' = "wait"
    /\ lwait' = 3
    /\ lbuf' = <<>>
    /\ lelapsed' = 0
    /\ UNCHANGED <<ldev, lwire, out_after_user, expired, promptSeen>>
    /\ UNCHANGED notLogin

\* send("show interfaces description | json | no-more\r\n")
LSendListing ==
    /\ lpc = "send_listing"
    /\ lsent' = Append(lsent, "listing")
    /\ lpc' = "done"
    /\ UNCHANGED <<lwait, ldev, lwire, lbuf, lelapsed, out_after_user, expired, promptSeen>>
    /\ UNCHANGED notLogin

\* channel.send or channel.recv raises (the connection was dropped): the
\* exception leaves the function, and close() is not on that path
LRaise ==
    /\ lpc \in {"wait", "send_user", "password", "send_listing"}
    /\ lpc' = "raised"
    /\ UNCHANGED <<lwait, ldev, lwire, lbuf, lelapsed, out_after_user, lsent, expired,
                   promptSeen>>
    /\ UNCHANGED notLogin

LoginNext ==
    \/ LDevEmit
    \/ LReadRecv
    \/ LReadSleep
    \/ LReadDeadline
    \/ LSendUser
    \/ LPassword
    \/ LSendListing
    \/ LRaise

SpecLogin == LoginInit /\ [][LoginNext]_vars

\* C12: the first command is written only after a read of the login handshake
\* returned a text with a command prompt, and never after a wait of the
\* handshake ended at its deadline.
C12_FirstCommandAfterPrompt ==
    (\E i \in 1..Len(lsent) : lsent[i] = "listing") =>
        /\ promptSeen
        /\ expired = {}

(***************************************************************************)
(* extract_json applied to one text. A text is a sequence of characters of *)
(* a small alphabet: the two braces, the quote "q" and "a" for any other   *)
(* character.                                                              *)
(***************************************************************************)
MaxText == 6
JChars == {"{", "}", "q", "a"}
Texts == UNION {[1..n -> {Byte(0, ch) : ch \in JChars}] : n \in 0..MaxText}

JsonInit ==
    /\ fpc = "call"
    /\ jtext \in Texts
    /\ jout = NoData
    /\ PromptIdle
    /\ XmlIdle
    /\ ListingIdle
    /\ LaterIdle
    /\ FleetIdle
    /\ SessionIdle
    /\ ChannelIdle
    /\ LoginIdle

ExtractJson ==
    /\ fpc = "call"
    /\ jout' = extract_json(jtext)
    /\ fpc' = "return"
    /\ UNCHANGED <<jtext, ptext, pgot, pwhy, xtext, blocks, listing, candidates, probed>>
    /\ UNCHANGED laterVars
    /\ UNCHANGED notFun

JsonNext == ExtractJson

SpecJson == JsonInit /\ [][JsonNext]_vars

\* braces of t in positions a..b: opened minus closed
Depth(t, a, b) ==
    Cardinality({m \in a..b : t[m].ch = "{"}) - Cardinality({m \in a..b : t[m].ch = "}"})

\* no brace of g is unbalanced: none closes what was not opened, none stays open
NoUnbalancedBrace(g) ==
    /\ \A m \in 1..Len(g) : Depth(g, 1, m) >= 0
    /\ Depth(g, 1, Len(g)) = 0

\* C17: for a text garbage1 + jsonObj + garbage2 with jsonObj a JSON object and
\* no unbalanced brace in either garbage, extract_json gives the parse of
\* jsonObj.
C17_LocationInvariant ==
    fpc = "return" =>
        \A a \in 1..Len(jtext) : \A b \in a..Len(jtext) :
            ( /\ json_loads(SubSeq(jtext, a, b)) # NoData
              /\ NoUnbalancedBrace(SubSeq(jtext, 1, a - 1))
              /\ NoUnbalancedBrace(SubSeq(jtext, b + 1, Len(jtext))) )
            => jout = json_loads(SubSeq(jtext, a, b))

\* the same for garbage without any brace at all
BraceFree(g) == \A m \in 1..Len(g) : g[m].ch \notin {"{", "}"}
LocationInvariantBraceFreeGarbage ==
    fpc = "return" =>
        \A a \in 1..Len(jtext) : \A b \in a..Len(jtext) :
            ( /\ json_loads(SubSeq(jtext, a, b)) # NoData
              /\ BraceFree(SubSeq(jtext, 1, a - 1))
              /\ BraceFree(SubSeq(jtext, b + 1, Len(jtext))) )
            => jout = json_loads(SubSeq(jtext, a, b))

\* C18: extract_json gives null for a text without "{" and for a text whose
\* brace depth, counted from the first "{", never comes back to zero; what it
\* gives otherwise is the parse of a slice of the text with balanced braces.
C18_NullOrBalancedSlice ==
    fpc = "return" =>
        /\ (\A m \in 1..Len(jtext) : jtext[m].ch # "{") => jout = NoData
        /\ (\A a \in 1..Len(jtext) :
               ( /\ jtext[a].ch = "{"
                 /\ \A m \in 1..(a - 1) : jtext[m].ch # "{"
                 /\ \A b \in a..Len(jtext) : Depth(jtext, a, b) > 0 )
               => jout = NoData)
        /\ jout # NoData =>
               \E a \in 1..Len(jtext) : \E b \in a..Len(jtext) :
                   /\ Depth(jtext, a, b) = 0
                   /\ \A m \in a..b : Depth(jtext, a, m) >= 0
                   /\ jout = json_loads(SubSeq(jtext, a, b))

\* an object with an inner object was taken out of a text that has other
\* characters before and after it
C18_Witness ==
    /\ fpc = "return"
    /\ jout # NoData
    /\ Len(jtext) = MaxText
    /\ jtext[1].ch = "a"
    /\ jtext[MaxText].ch = "a"
    /\ \E m \in 3..MaxText : jtext[m].ch = "{"

\* null came back for a text whose first object is never closed
UnterminatedWitness ==
    /\ fpc = "return"
    /\ jout = NoData
    /\ \E m \in 1..Len(jtext) : jtext[m].ch = "{"
    /\ \A m \in 1..Len(jtext) : jtext[m].ch # "}"

(***************************************************************************)
(* read_until_prompt over the output of one command: the payload and then  *)
(* the device's prompt, received in chunks of any size. Characters: "n" a  *)
(* newline, "s" a blank, ">", "#", "@", and "a" for any other character.   *)
(***************************************************************************)
MaxPayload == 3
PChars == {"n", "s", ">", "#", "@", "a"}
\* what the device writes when the payload is out: a newline and user@host>
DevicePrompt == <<"n", "a", "@", "a", ">", "s">>
DeviceOutput == ptext \o DevicePrompt
Received == SubSeq(DeviceOutput, 1, pgot)

\* str.strip()
Strip(t) ==
    LET inked == {i \in 1..Len(t) : t[i] \notin {"n", "s"}}
    IN IF inked = {} THEN <<>>
       ELSE SubSeq(t, CHOOSE i \in inked : \A j \in inked : i <= j,
                      CHOOSE i \in inked : \A j \in inked : i >= j)

\* text.split("\n")[-1]
SplitNewlineLast(t) ==
    LET nls == {i \in 1..Len(t) : t[i] = "n"}
    IN IF nls = {} THEN t
       ELSE SubSeq(t, (CHOOSE i \in nls : \A j \in nls : i >= j) + 1, Len(t))

\* _looks_like_cli_prompt
looks_like_cli_prompt(text) ==
    IF text = <<>> \/ Strip(text) = <<>> THEN FALSE
    ELSE LET last_line == IF \E i \in 1..Len(text) : text[i] = "n"
                          THEN Strip(SplitNewlineLast(text))
                          ELSE Strip(text)
         IN IF last_line = <<>> THEN FALSE
            ELSE IF last_line[Len(last_line)] \notin {">", "#"} THEN FALSE
            ELSE \E i \in 1..Len(last_line) : last_line[i] = "@"

PromptInit ==
    /\ fpc = "call"
    /\ ptext \in UNION {[1..n -> PChars] : n \in 0..MaxPayload}
    /\ pgot = 0
    /\ pwhy = "-"
    /\ JsonIdle
    /\ XmlIdle
    /\ ListingIdle
    /\ LaterIdle
    /\ FleetIdle
    /\ SessionIdle
    /\ ChannelIdle
    /\ LoginIdle

\* a turn with recv_ready(): the next chunk, then the test of the whole text
PRecv ==
    /\ fpc = "call"
    /\ pgot < Len(DeviceOutput)
    /\ \E n \in 1..(Len(DeviceOutput) - pgot) :
          /\ pgot' = pgot + n
          /\ IF looks_like_cli_prompt(SubSeq(DeviceOutput, 1, pgot + n))
             THEN fpc' = "return" /\ pwhy' = "prompt"
             ELSE fpc' = "call" /\ pwhy' = pwhy
    /\ UNCHANGED <<ptext, jtext, jout, xtext, blocks, listing, candidates, probed>>
    /\ UNCHANGED laterVars
    /\ UNCHANGED notFun

\* the idle break (with something received) or the deadline
PGiveUp ==
    /\ fpc = "call"
    /\ \E why \in {"idle", "deadline"} :
          /\ why = "idle" => pgot > 0
          /\ pwhy' = why
    /\ fpc' = "return"
    /\ UNCHANGED <<ptext, pgot, jtext, jout, xtext, blocks, listing, candidates, probed>>
    /\ UNCHANGED laterVars
    /\ UNCHANGED notFun

PromptNext ==
    \/ PRecv
    \/ PGiveUp

SpecPrompt == PromptInit /\ [][PromptNext]_vars

\* the last line of a text: what follows its last newline
LastLine(t) ==
    IF \E i \in 1..Len(t) : t[i] = "n"
    THEN LET i == CHOOSE i \in 1..Len(t) : t[i] = "n" /\ \A j \in (i + 1)..Len(t) : t[j] # "n"
         IN SubSeq(t, i + 1, Len(t))
    ELSE t

\* the prompt test as described: the trimmed last line is not empty, ends with
\* ">" or "#", and has an "@"
DescribedPrompt(t) ==
    LET l == Strip(LastLine(t))
    IN /\ l # <<>>
       /\ l[Len(l)] \in {">", "#"}
       /\ \E i \in 1..Len(l) : l[i] = "@"

\* _looks_like_cli_prompt is the described test, on every text received
PromptTestAsDescribed == looks_like_cli_prompt(Received) <=> DescribedPrompt(Received)

\* C19: _looks_like_cli_prompt is true exactly for a text whose trimmed last
\* line is not empty, ends with ">" or "#" and has an "@"; and read_until_prompt
\* returns on a prompt only when the device's prompt has arrived, never on a
\* ">" or "#" of the payload.
C19_PromptNotInPayload ==
    /\ PromptTestAsDescribed
    /\ (fpc = "return" /\ pwhy = "prompt") => pgot > Len(ptext)

(***************************************************************************)
(* _extract_all_xml_interface_information_blocks applied to one text. The  *)
(* text is a sequence of tags: "O" <interface-information>, "C" its        *)
(* closing tag, "o" and "c" the opening and closing tag of another         *)
(* element, "s" a self-closing tag, "t" text without "<".                  *)
(***************************************************************************)
MaxXml == 5
XTokens == {"O", "C", "o", "c", "s", "t"}

\* text.find(start_tag, pos): the first "O" at or after pos, or 0
FindStartTag(t, pos) ==
    IF \E i \in pos..Len(t) : t[i] = "O"
    THEN CHOOSE i \in pos..Len(t) : t[i] = "O" /\ \A j \in pos..(i - 1) : t[j] # "O"
    ELSE 0

\* the inner while loop from position i with the depth so far: "</" takes one
\* from the depth and ends the block at zero; "<" before anything else than
\* "/" or a blank adds one. The position of the tag that ends the block, or 0
\* when the text ends first.
RECURSIVE ScanBlock(_, _, _)
ScanBlock(t, i, depth) ==
    IF i > Len(t) THEN 0
    ELSE IF t[i] \in {"C", "c"}
         THEN IF depth - 1 = 0 THEN i ELSE ScanBlock(t, i + 1, depth - 1)
    ELSE IF t[i] \in {"O", "o", "s"} THEN ScanBlock(t, i + 1, depth + 1)
    ELSE ScanBlock(t, i + 1, depth)

\* the outer loop from pos
RECURSIVE extract_all_blocks(_, _)
extract_all_blocks(t, pos) ==
    LET p == FindStartTag(t, pos)
    IN IF p = 0 THEN <<>>
       ELSE LET end == ScanBlock(t, p, 0)
            IN IF end = 0 THEN extract_all_blocks(t, p + 1)
               ELSE <<SubSeq(t, p, end)>> \o extract_all_blocks(t, end + 1)

XmlInit ==
    /\ fpc = "call"
    /\ xtext \in UNION {[1..n -> XTokens] : n \in 0..MaxXml}
    /\ blocks = <<>>
    /\ JsonIdle
    /\ PromptIdle
    /\ ListingIdle
    /\ LaterIdle
    /\ FleetIdle
    /\ SessionIdle
    /\ ChannelIdle
    /\ LoginIdle

ExtractBlocks ==
    /\ fpc = "call"
    /\ blocks' = extract_all_blocks(xtext, 1)
    /\ fpc' = "return"
    /\ UNCHANGED <<xtext, jtext, jout, ptext, pgot, pwhy, listing, candidates, probed>>
    /\ UNCHANGED laterVars
    /\ UNCHANGED notFun

XmlNext == ExtractBlocks

SpecXml == XmlInit /\ [][XmlNext]_vars

\* the content of an element: other elements, closed in the order they were
\* opened, self-closing tags and text
ElementContent(t, a, b) ==
    /\ \A i \in a..b : t[i] \notin {"O", "C"}
    /\ \A i \in a..b :
          Cardinality({j \in a..i : t[j] = "o"}) >= Cardinality({j \in a..i : t[j] = "c"})
    /\ Cardinality({j \in a..b : t[j] = "o"}) = Cardinality({j \in a..b : t[j] = "c"})

\* the "C" that closes the "O" at a: the next one
ClosingOf(t, a) ==
    IF \E b \in (a + 1)..Len(t) : t[b] = "C"
    THEN CHOOSE b \in (a + 1)..Len(t) : t[b] = "C" /\ \A j \in (a + 1)..(b - 1) : t[j] # "C"
    ELSE 0

\* the text is complete blocks, one after the other, with other text around
CompleteBlocks(t) ==
    /\ \A a \in 1..Len(t) : t[a] = "O" =>
           /\ ClosingOf(t, a) # 0
           /\ ElementContent(t, a + 1, ClosingOf(t, a) - 1)
    /\ \A b \in 1..Len(t) : t[b] = "C" =>
           \E a \in 1..(b - 1) : t[a] = "O" /\ ClosingOf(t, a) = b

\* the blocks of such a text, in the order of the text
RECURSIVE BlocksFrom(_, _)
BlocksFrom(t, pos) ==
    IF pos > Len(t) THEN <<>>
    ELSE IF t[pos] = "O"
         THEN <<SubSeq(t, pos, ClosingOf(t, pos))>> \o BlocksFrom(t, ClosingOf(t, pos) + 1)
    ELSE BlocksFrom(t, pos + 1)

\* C20: for a text of k complete blocks with other text around them the
\* function returns those k blocks, each from its opening to its closing tag,
\* in the order of the text, whatever tags the blocks hold.
C20_AllBlocksReturned ==
    (fpc = "return" /\ CompleteBlocks(xtext)) => blocks = BlocksFrom(xtext, 1)

\* the same for blocks without a self-closing tag
AllBlocksReturnedWithoutSelfClosing ==
    (fpc = "return" /\ CompleteBlocks(xtext) /\ \A i \in 1..Len(xtext) : xtext[i] # "s")
        => blocks = BlocksFrom(xtext, 1)

\* two blocks were returned
TwoBlocksWitness ==
    /\ fpc = "return"
    /\ CompleteBlocks(xtext)
    /\ Len(blocks) = 2

(***************************************************************************)
(* The bootstrap listing of one device and what the pipeline does with it: *)
(* the candidates are parsed from the listing, and the loop takes them one *)
(* by one. Only a candidate gets a detail query.                           *)
(***************************************************************************)
IsAristaListing(d) == "interfaceDescriptions" \in DOMAIN d

ListingInit ==
    /\ fpc = "call"
    /\ listing \in ArListings \cup JListings
    /\ candidates = <<>>
    /\ probed = <<>>
    /\ JsonIdle
    /\ PromptIdle
    /\ XmlIdle
    /\ LaterIdle
    /\ FleetIdle
    /\ SessionIdle
    /\ ChannelIdle
    /\ LoginIdle

\* uplinks = parse_arista_uplinks(desc_data)
\* uplinks = parse_juniper_uplinks(desc_data, require_link_up=True)
ParseListing ==
    /\ fpc = "call"
    /\ candidates' = IF IsAristaListing(listing)
                THEN [i \in 1..Len(parse_arista_uplinks(listing)) |->
                         NameDesc(parse_arista_uplinks(listing)[i])]
                ELSE parse_juniper_uplinks(listing, TRUE)
    /\ fpc' = "loop"
    /\ UNCHANGED <<listing, probed, jtext, jout, ptext, pgot, pwhy, xtext, blocks>>
    /\ UNCHANGED laterVars
    /\ UNCHANGED notFun

\* "for name, desc in uplinks:" / "for logical_name, desc in uplinks:", one turn
ProbeCandidate ==
    /\ fpc = "loop"
    /\ IF Len(probed) < Len(candidates)
       THEN /\ probed' = Append(probed, candidates[Len(probed) + 1].name)
            /\ fpc' = fpc
       ELSE /\ probed' = probed
            /\ fpc' = "return"
    /\ UNCHANGED <<listing, candidates, jtext, jout, ptext, pgot, pwhy, xtext, blocks>>
    /\ UNCHANGED laterVars
    /\ UNCHANGED notFun

ListingNext ==
    \/ ParseListing
    \/ ProbeCandidate

SpecListing == ListingInit /\ [][ListingNext]_vars

\* the interfaces the listing shows with the marker; of a Juniper listing those
\* of a unit the pipeline looks at (physical, or unit 0)
MarkedInListing ==
    IF IsAristaListing(listing)
    THEN {e.name : e \in {x \in SeqToSet(listing.interfaceDescriptions) :
                              HasMarker(x.description)}}
    ELSE {e.name : e \in {x \in SeqToSet(listing.physical \o listing.logical) :
                              /\ HasMarker(x.description)
                              /\ ~HasDot(x.name) \/ SplitLast(x.name) = "0"}}

\* C21: no interface the listing shows with the marker is left out before its
\* own detail query: when the loop is over, every one of them has had its turn,
\* whatever link state the listing gave for it.
C21_NoLinkFilterOnListing ==
    fpc = "return" => \A n \in MarkedInListing : \E i \in 1..Len(probed) : probed[i] = n

\* the same for the Arista listing alone
AristaListingKeepsAllMarked ==
    (fpc = "return" /\ IsAristaListing(listing)) =>
        \A n \in MarkedInListing : \E i \in 1..Len(probed) : probed[i] = n

(***************************************************************************)
(* Kind resolution. Two sessions are opened for devices of one platform    *)
(* name; each reads its own text after the password. get_ssh_uplinks       *)
(* settles is_juniper from the name, or from the text if there is no name; *)
(* process_one_device_stats routes on the name alone. A text is the        *)
(* sequence of its words; "JUNOS" in text looks for the word as written.   *)
(***************************************************************************)
MaxBanner == 2
Sessions == {1, 2}
BannerWords == {"JUNOS", "junos", "Arista", ">"}
Banners == UNION {[1..n -> BannerWords] : n \in 0..MaxBanner}
Contains(text, w) == \E i \in 1..Len(text) : text[i] = w

\* get_ssh_uplinks with is_juniper taken from the name or from the text
ssh_is_juniper_either(name, text) ==
    is_juniper_platform(name) \/ Contains(text, "JUNOS")

\* get_ssh_uplinks: "if platform_name is not None: is_juniper =
\* is_juniper_platform(platform_name) ... else: is_juniper = "JUNOS" in out_after_pass"
ssh_is_juniper(name, text) ==
    IF name # "None" THEN is_juniper_platform(name) ELSE Contains(text, "JUNOS")

KindInit ==
    /\ fpc = "-"
    /\ entry \in {"get_ssh_uplinks", "process_one_device_stats"}
    /\ supplied_platform \in PlatformNames
    /\ out_after_pass \in [Sessions -> Banners]
    /\ dialect = [s \in Sessions |-> "-"]
    /\ ProgressIdle
    /\ ClockIdle
    /\ TailIdle
    /\ JsonIdle
    /\ PromptIdle
    /\ XmlIdle
    /\ ListingIdle
    /\ FleetIdle
    /\ SessionIdle
    /\ ChannelIdle
    /\ LoginIdle

\* get_ssh_uplinks, from the end of the login to the choice of the commands
ResolveSsh(s) ==
    /\ entry = "get_ssh_uplinks"
    /\ dialect[s] = "-"
    /\ dialect' = [dialect EXCEPT ![s] =
                      IF ssh_is_juniper(supplied_platform, out_after_pass[s])
                      THEN "juniper" ELSE "arista"]
    /\ UNCHANGED <<entry, supplied_platform, out_after_pass>>
    /\ UNCHANGED lockVars
    /\ UNCHANGED clockVars
    /\ UNCHANGED tailVars
    /\ UNCHANGED <<fpc, jtext, jout, ptext, pgot, pwhy, xtext, blocks, listing,
                   candidates, probed>>
    /\ UNCHANGED notFun

\* process_one_device_stats
ResolveWorker(s) ==
    /\ entry = "process_one_device_stats"
    /\ dialect[s] = "-"
    /\ dialect' = [dialect EXCEPT ![s] =
                      IF is_arista_platform(supplied_platform) THEN "arista"
                      ELSE IF is_juniper_platform(supplied_platform) THEN "juniper"
                      ELSE "skip"]
    /\ UNCHANGED <<entry, supplied_platform, out_after_pass>>
    /\ UNCHANGED lockVars
    /\ UNCHANGED clockVars
    /\ UNCHANGED tailVars
    /\ UNCHANGED <<fpc, jtext, jout, ptext, pgot, pwhy, xtext, blocks, listing,
                   candidates, probed>>
    /\ UNCHANGED notFun

KindNext ==
    \/ \E s \in Sessions : ResolveSsh(s)
    \/ \E s \in Sessions : ResolveWorker(s)

SpecKind == KindInit /\ [][KindNext]_vars

\* C24: with a platform name supplied, two sessions select the same dialect
\* whatever text each read after the login; a dialect differs between them only
\* with no name supplied, and then get_ssh_uplinks takes Juniper exactly when
\* the text of the session contains 'JUNOS'.
C24_KindIndependentOfBanner ==
    /\ (supplied_platform # "None" /\ \A s \in Sessions : dialect[s] # "-") =>
           dialect[1] = dialect[2]
    /\ (\A s \in Sessions : dialect[s] # "-") /\ dialect[1] # dialect[2] =>
           supplied_platform = "None" /\ entry = "get_ssh_uplinks"
    /\ (supplied_platform = "None" /\ entry = "get_ssh_uplinks") =>
           \A s \in Sessions :
              dialect[s] # "-" =>
                 (dialect[s] = "juniper" <=> Contains(out_after_pass[s], "JUNOS"))

C24_Witness ==
    /\ entry = "get_ssh_uplinks"
    /\ supplied_platform = "Arista EOS"
    /\ Contains(out_after_pass[1], "JUNOS")
    /\ ~Contains(out_after_pass[2], "JUNOS")
    /\ dialect = [s \in Sessions |-> "arista"]

\* with no name, the two texts decide, each for its own session
InferredFromBannerWitness ==
    /\ supplied_platform = "None"
    /\ dialect[1] = "juniper"
    /\ dialect[2] = "arista"
    /\ Contains(out_after_pass[2], "junos")

(***************************************************************************)
(* progress_print. The pool threads, one per device, and main (in the      *)
(* except branch of the as_completed loop) call progress_print; print      *)
(* writes the text of the line and its end as two writes to the file. A    *)
(* pool thread between two calls sends a command, pauses, and waits for     *)
(* the response, for as long as the device pleases.                        *)
(***************************************************************************)
MaxLines == 2
Workers == {"w1", "w2"}
Threads == Workers \cup {"main"}

\* threading.Lock.acquire with the test of the lock left out
lock_free_always(l) == TRUE

\* threading.Lock: acquire goes on when the lock is free
lock_free(l) == l = "free"

\* the with block left without the release
release_kept(l) == l

\* the end of "with print_lock:", by return or by exception
release(l) == "free"

ProgressInit ==
    /\ fpc = "-"
    /\ tpc = [t \in Threads |-> "run"]
    /\ print_lock = "free"
    /\ progress_file = <<>>
    /\ emitted = [d \in Workers |-> 0]
    /\ line = [t \in Threads |-> [dev |-> "-", no |-> 0]]
    /\ KindIdle
    /\ ClockIdle
    /\ TailIdle
    /\ JsonIdle
    /\ PromptIdle
    /\ XmlIdle
    /\ ListingIdle
    /\ FleetIdle
    /\ SessionIdle
    /\ ChannelIdle
    /\ LoginIdle

ProgressKeeps ==
    /\ UNCHANGED kindVars
    /\ UNCHANGED clockVars
    /\ UNCHANGED tailVars
    /\ UNCHANGED <<fpc, jtext, jout, ptext, pgot, pwhy, xtext, blocks, listing,
                   candidates, probed>>
    /\ UNCHANGED notFun

\* a pool thread calls progress_print(device.name, msg): process_one_* or the
\* log callback of the session
WorkerCall(t) ==
    /\ t \in Workers
    /\ tpc[t] = "run"
    /\ emitted[t] < MaxLines
    /\ emitted' = [emitted EXCEPT ![t] = @ + 1]
    /\ line' = [line EXCEPT ![t] = [dev |-> t, no |-> emitted[t] + 1]]
    /\ tpc' = [tpc EXCEPT ![t] = "want"]
    /\ UNCHANGED <<print_lock, progress_file>>
    /\ ProgressKeeps

\* main, for a future that raised: progress_print(device.name, "исключение: ...")
MainCall(d) ==
    /\ d \in Workers
    /\ tpc["main"] = "run"
    /\ tpc[d] = "raised"
    /\ emitted' = [emitted EXCEPT ![d] = @ + 1]
    /\ line' = [line EXCEPT !["main"] = [dev |-> d, no |-> emitted[d] + 1]]
    /\ tpc' = [tpc EXCEPT !["main"] = "want", ![d] = "handled"]
    /\ UNCHANGED <<print_lock, progress_file>>
    /\ ProgressKeeps

\* with print_lock: (entry)
Acquire(t) ==
    /\ tpc[t] = "want"
    /\ lock_free(print_lock)
    /\ print_lock' = t
    /\ tpc' = [tpc EXCEPT ![t] = "text"]
    /\ UNCHANGED <<progress_file, emitted, line>>
    /\ ProgressKeeps

\* print(...): file.write("[{}] {}".format(device_name, msg))
WriteText(t) ==
    /\ tpc[t] = "text"
    /\ progress_file' = Append(progress_file, [dev |-> line[t].dev, no |-> line[t].no,
                                                part |-> "text"])
    /\ tpc' = [tpc EXCEPT ![t] = "end"]
    /\ UNCHANGED <<print_lock, emitted, line>>
    /\ ProgressKeeps

\* print(...): file.write("\n") and the flush
WriteEnd(t) ==
    /\ tpc[t] = "end"
    /\ progress_file' = Append(progress_file, [dev |-> line[t].dev, no |-> line[t].no,
                                                part |-> "end"])
    /\ tpc' = [tpc EXCEPT ![t] = "exit"]
    /\ UNCHANGED <<print_lock, emitted, line>>
    /\ ProgressKeeps

\* the with block is left; progress_print returns
Release(t) ==
    /\ tpc[t] = "exit"
    /\ print_lock' = release(print_lock)
    /\ tpc' = [tpc EXCEPT ![t] = "run"]
    /\ UNCHANGED <<progress_file, emitted, line>>
    /\ ProgressKeeps

\* print raises in a pool thread before it has written (the text cannot be
\* encoded for the file): the with block releases the lock, the exception
\* leaves the worker
PrintRaise(t) ==
    /\ t \in Workers
    /\ tpc[t] = "text"
    /\ print_lock' = release(print_lock)
    /\ tpc' = [tpc EXCEPT ![t] = "raised"]
    /\ UNCHANGED <<progress_file, emitted, line>>
    /\ ProgressKeeps

\* send(cmd); time.sleep(0.2)
SendAndPause(t) ==
    /\ t \in Workers
    /\ tpc[t] = "run"
    /\ tpc' = [tpc EXCEPT ![t] = "pause"]
    /\ UNCHANGED <<print_lock, progress_file, emitted, line>>
    /\ ProgressKeeps

\* the pause is over: read_until_json_and_prompt(channel, timeout) is entered
EnterRead(t) ==
    /\ tpc[t] = "pause"
    /\ tpc' = [tpc EXCEPT ![t] = "read"]
    /\ UNCHANGED <<print_lock, progress_file, emitted, line>>
    /\ ProgressKeeps

\* read_until_json_and_prompt returns, or the channel raises
LeaveRead(t) ==
    /\ tpc[t] = "read"
    /\ \E to \in {"run", "raised"} : tpc' = [tpc EXCEPT ![t] = to]
    /\ UNCHANGED <<print_lock, progress_file, emitted, line>>
    /\ ProgressKeeps

\* the worker returns its result
WorkerReturn(t) ==
    /\ t \in Workers
    /\ tpc[t] = "run"
    /\ tpc' = [tpc EXCEPT ![t] = "done"]
    /\ UNCHANGED <<print_lock, progress_file, emitted, line>>
    /\ ProgressKeeps

\* the steps of one thread
ThreadStep(t) ==
    \/ WorkerCall(t)
    \/ \E d \in Workers : t = "main" /\ MainCall(d)
    \/ Acquire(t)
    \/ WriteText(t)
    \/ WriteEnd(t)
    \/ Release(t)
    \/ PrintRaise(t)
    \/ SendAndPause(t)
    \/ EnterRead(t)
    \/ LeaveRead(t)
    \/ WorkerReturn(t)

ProgressNext ==
    \/ \E t \in Threads : WorkerCall(t)
    \/ \E d \in Workers : MainCall(d)
    \/ \E t \in Threads : Acquire(t)
    \/ \E t \in Threads : WriteText(t)
    \/ \E t \in Threads : WriteEnd(t)
    \/ \E t \in Threads : Release(t)
    \/ \E t \in Threads : PrintRaise(t)
    \/ \E t \in Threads : SendAndPause(t)
    \/ \E t \in Threads : EnterRead(t)
    \/ \E t \in Threads : LeaveRead(t)
    \/ \E t \in Threads : WorkerReturn(t)

SpecProgress == ProgressInit /\ [][ProgressNext]_vars

\* the threads inside print
InsideWrite == {t \in Threads : tpc[t] \in {"text", "end", "exit"}}

\* C26: at most one thread is inside the write of a line; on the sink the text
\* of a line is followed by its own end before anything else is written; the
\* lines of one device stand in the order of their progress_print calls
C26_LinesSerialized ==
    /\ Cardinality(InsideWrite) <= 1
    /\ \A i \in 1..Len(progress_file) :
          /\ progress_file[i].part = "text" /\ i < Len(progress_file) =>
                progress_file[i + 1] = [progress_file[i] EXCEPT !.part = "end"]
          /\ progress_file[i].part = "end" =>
                i > 1 /\ progress_file[i - 1] = [progress_file[i] EXCEPT !.part = "text"]
    /\ \A i, j \in 1..Len(progress_file) :
          (i < j /\ progress_file[i].dev = progress_file[j].dev
                 /\ progress_file[i].part = "text" /\ progress_file[j].part = "text") =>
             progress_file[i].no < progress_file[j].no

\* two threads wanted the lock at once, each got it in turn; a device has a line
\* of its worker and a line of main
C26_Witness ==
    /\ \E i \in 1..Len(progress_file) :
          /\ i + 3 <= Len(progress_file)
          /\ progress_file[i].dev # progress_file[i + 2].dev
    /\ \E t \in Threads : tpc[t] = "want"
    /\ \E u \in Threads : tpc[u] = "end"
    /\ tpc["main"] \in {"want", "end"}

\* the order between devices is free: a line of w2 called after a line of w1
\* may stand before it
CrossDeviceOrderFreeWitness ==
    /\ Len(progress_file) >= 1
    /\ progress_file[1].dev = "w2"
    /\ tpc["w1"] = "want"
    /\ emitted["w2"] = 1
    /\ line["w1"].no = 1

\* the threads waiting for the network
Waiting == {t \in Threads : tpc[t] \in {"pause", "read"}}

\* C29: a thread in a pause or in a network read does not hold the lock, nor
\* does any thread outside print; whoever holds it is inside print and can go
\* on to the release by its own steps; every other thread that has not ended
\* has a step of its own to take, except one waiting for a lock that a thread
\* inside print holds
C29_WaitingHoldsNothing ==
    /\ \A t \in Waiting : print_lock # t
    /\ print_lock # "free" => (print_lock \in InsideWrite /\ InsideWrite = {print_lock})
    /\ print_lock = "free" => InsideWrite = {}
    /\ \A t \in Threads :
          (tpc[t] \notin {"done", "raised", "handled"} /\ t # "main"
             /\ (tpc[t] = "want" => print_lock = "free")) =>
          ENABLED <<ThreadStep(t)>>_vars
    /\ (tpc["main"] = "want" /\ print_lock = "free") => ENABLED <<Acquire("main")>>_vars

\* one worker has written its lines and is waiting in a read while main is
\* inside print with the line of the other, which raised
C29_Witness ==
    /\ tpc["w1"] = "read"
    /\ tpc["w2"] = "handled"
    /\ tpc["main"] = "end"
    /\ emitted["w1"] = MaxLines

(***************************************************************************)
(* The pool against the clock: n devices are submitted at time 0, every    *)
(* worker takes the same number of time units. A pool thread with nothing  *)
(* to do is blocked on the work queue and takes the oldest queued item as  *)
(* soon as there is one, so time passes only when no item can be taken.    *)
(***************************************************************************)
MaxFleet == 5
MaxPool == 3
MaxDelay == 2

Queued == {d \in DOMAIN work : work[d] = "queued"}
AtWork == {d \in DOMAIN work : work[d] = "running"}

ClockInit ==
    /\ fpc = "-"
    /\ now = 0
    /\ \E n \in 1..MaxFleet, parallel \in 0..MaxPool, T \in 1..MaxDelay :
          /\ work = [d \in 1..n |-> "queued"]
          /\ left = [d \in 1..n |-> T]
          /\ delay = T
          /\ pool = pool_size(n, parallel)
    /\ KindIdle
    /\ ProgressIdle
    /\ TailIdle
    /\ JsonIdle
    /\ PromptIdle
    /\ XmlIdle
    /\ ListingIdle
    /\ FleetIdle
    /\ SessionIdle
    /\ ChannelIdle
    /\ LoginIdle

ClockKeeps ==
    /\ UNCHANGED kindVars
    /\ UNCHANGED lockVars
    /\ UNCHANGED tailVars
    /\ UNCHANGED <<fpc, jtext, jout, ptext, pgot, pwhy, xtext, blocks, listing,
                   candidates, probed>>
    /\ UNCHANGED notFun

\* a pool thread takes the oldest queued work item
TakeItem(d) ==
    /\ d \in Queued
    /\ \A e \in Queued : d <= e
    /\ pool_has_slot(Cardinality(AtWork), pool)
    /\ work' = [work EXCEPT ![d] = "running"]
    /\ UNCHANGED <<now, left, delay, pool>>
    /\ ClockKeeps

\* one time unit passes for every worker at work; a worker with none left
\* returns and its thread goes back to the queue
Tick ==
    /\ ~ \E d \in Queued : pool_has_slot(Cardinality(AtWork), pool)
    /\ AtWork # {}
    /\ now' = now + 1
    /\ left' = [d \in DOMAIN left |-> IF d \in AtWork THEN left[d] - 1 ELSE left[d]]
    /\ work' = [d \in DOMAIN work |->
                  IF d \in AtWork /\ left[d] = 1 THEN "done" ELSE work[d]]
    /\ UNCHANGED <<delay, pool>>
    /\ ClockKeeps

ClockNext ==
    \/ \E d \in 1..MaxFleet : TakeItem(d)
    \/ Tick

SpecClock == ClockInit /\ [][ClockNext]_vars

CeilDiv(a, b) == (a + b - 1) \div b
AllDone == \A d \in DOMAIN work : work[d] = "done"

\* C28: n devices of T time units each on a pool of p threads are all done at
\* ceil(n/p) x T and not before; never more than p are at work; time does not
\* pass with a device queued and a thread free
C28_Makespan ==
    /\ [](AllDone <=> now = CeilDiv(Len(work), pool) * delay)
    /\ [](Cardinality(AtWork) <= pool)
    /\ [][now' # now => (Queued = {} \/ Cardinality(AtWork) = pool)]_vars

\* five devices on a pool of two, done at 3 x T
C28_Witness ==
    /\ Len(work) = 5
    /\ pool = 2
    /\ delay = MaxDelay
    /\ AllDone
    /\ now = 3 * delay

(***************************************************************************)
(* --merge-into FILE: after the pool main loads FILE, puts the entry of    *)
(* every polled host into its devices map and writes the whole back.       *)
(* open(path, "w") empties the file before json.dump writes into it.       *)
(***************************************************************************)
Hosts == {"sw1", "sw2", "sw3"}
Entries == {"stats", "error"}

\* a devices map: the entries of some of the hosts
MapsOver(vals) == UNION {[hs -> vals] : hs \in SUBSET Hosts}

\* what FILE may hold when main starts
FileContents ==
    {[k |-> "missing"], [k |-> "invalid"], [k |-> "nokey"]}
        \cup {[k |-> "map", devices |-> dm] : dm \in MapsOver({"old"})}

\* _load_stats_file: (data, None) or (None, error_msg). A message is the
\* sequence of its parts (the Russian words are written in Latin letters); no
\* message is <<>>
load_stats_file(f) ==
    CASE f.k = "missing" -> [data |-> [k |-> "none"],
                             err |-> <<"Fail", "ne naiden", ": ", "FILE">>]
      [] f.k = "invalid" -> [data |-> [k |-> "none"],
                             err |-> <<"Oshibka razbora JSON v faile", ": ", "e">>]
      [] f.k = "nokey" -> [data |-> [k |-> "none"],
                           err |-> <<"V faile ozhidaetsya struktura s klyuchom 'devices'.">>]
      [] OTHER -> [data |-> f, err |-> <<>>]

\* "не найден" in load_err
HasNotFound(err) == Contains(err, "ne naiden")

\* merged is None and load_err and "не найден" not in load_err
load_is_fatal(ld) == ld.data.k = "none" /\ ld.err # <<>> /\ ~HasNotFound(ld.err)

\* for dev_name, payload in results.items(): merged["devices"][dev_name] = payload
merge_devices(old, res) ==
    [h \in DOMAIN old \cup DOMAIN res |-> IF h \in DOMAIN res THEN res[h] ELSE old[h]]

MergeInit ==
    /\ fpc = "-"
    /\ mpc = "load"
    /\ file_before \in FileContents
    /\ stats_file = file_before
    /\ polled \in MapsOver(Entries) \ {<<>>}
    /\ merged = [k |-> "none"]
    /\ exit_code = "-"
    /\ FallIdle
    /\ ParsersIdle
    /\ RowsIdle
    /\ ReportIdle
    /\ NameIdle
    /\ KindIdle
    /\ ProgressIdle
    /\ ClockIdle
    /\ JsonIdle
    /\ PromptIdle
    /\ XmlIdle
    /\ ListingIdle
    /\ FleetIdle
    /\ SessionIdle
    /\ ChannelIdle
    /\ LoginIdle

MergeKeeps ==
    /\ UNCHANGED <<kindVars, lockVars, clockVars>>
    /\ UNCHANGED <<fallVars, parseVars, rowVars, reportVars, nameVars>>
    /\ UNCHANGED <<fpc, jtext, jout, ptext, pgot, pwhy, xtext, blocks, listing,
                   candidates, probed>>
    /\ UNCHANGED notFun

\* merged, load_err = _load_stats_file(merge_path); the error that ends main;
\* "if merged is None: merged = {"devices": {}}"
LoadFile ==
    /\ mpc = "load"
    /\ LET ld == load_stats_file(stats_file)
       IN IF load_is_fatal(ld)
          THEN /\ mpc' = "returned"
               /\ exit_code' = 1
               /\ merged' = merged
          ELSE /\ mpc' = "merge"
               /\ exit_code' = exit_code
               /\ merged' = IF ld.data.k = "none"
                             THEN [k |-> "map", devices |-> <<>>] ELSE ld.data
    /\ UNCHANGED <<stats_file, file_before, polled>>
    /\ MergeKeeps

\* the loop over results.items()
MergeResults ==
    /\ mpc = "merge"
    /\ merged' = [merged EXCEPT !.devices = merge_devices(merged.devices, polled)]
    /\ mpc' = "open"
    /\ UNCHANGED <<stats_file, file_before, polled, exit_code>>
    /\ MergeKeeps

\* open(merge_path, "w", encoding="utf-8"): the file is emptied, or OSError
OpenForWrite ==
    /\ mpc = "open"
    /\ \/ /\ stats_file' = [k |-> "empty"]
          /\ mpc' = "dump"
          /\ exit_code' = exit_code
       \/ /\ stats_file' = stats_file
          /\ mpc' = "returned"
          /\ exit_code' = 1
    /\ UNCHANGED <<file_before, polled, merged>>
    /\ MergeKeeps

\* json.dump(merged, f, ...) and the end of the with block; or OSError with a
\* part of the text written; then the output and return 0, or return 1
DumpMerged ==
    /\ mpc = "dump"
    /\ \/ /\ stats_file' = merged
          /\ exit_code' = 0
       \/ /\ stats_file' = [k |-> "partial"]
          /\ exit_code' = 1
    /\ mpc' = "returned"
    /\ UNCHANGED <<file_before, polled, merged>>
    /\ MergeKeeps

MergeNext ==
    \/ LoadFile
    \/ MergeResults
    \/ OpenForWrite
    \/ DumpMerged

SpecMerge == MergeInit /\ [][MergeNext]_vars

\* the devices map FILE had
MapBefore == IF file_before.k = "map" THEN file_before.devices ELSE <<>>

\* C31: when main has returned, a FILE that could not be loaded is as it was;
\* every host FILE had that was not polled has its entry as it was; and a run
\* that ends well leaves in FILE the map it had (none for a missing file) with
\* the entry of every polled host replaced
C31_MergeFrame ==
    mpc = "returned" =>
        /\ file_before.k \in {"invalid", "nokey"} => stats_file = file_before
        /\ \A h \in DOMAIN MapBefore \ DOMAIN polled :
              /\ stats_file.k = "map"
              /\ h \in DOMAIN stats_file.devices
              /\ stats_file.devices[h] = MapBefore[h]
        /\ exit_code = 0 =>
              stats_file = [k |-> "map", devices |-> merge_devices(MapBefore, polled)]

\* the same for the runs in which the write, once begun, went through
MergeFrameWhenDumpSucceeds ==
    (mpc = "returned" /\ stats_file.k # "partial") =>
        /\ file_before.k \in {"invalid", "nokey"} => stats_file = file_before
        /\ \A h \in DOMAIN MapBefore \ DOMAIN polled :
              /\ stats_file.k = "map"
              /\ h \in DOMAIN stats_file.devices
              /\ stats_file.devices[h] = MapBefore[h]
        /\ exit_code = 0 =>
              stats_file = [k |-> "map", devices |-> merge_devices(MapBefore, polled)]

\* a host not polled and a host polled in a file written well
MergedWitness ==
    /\ mpc = "returned" /\ exit_code = 0
    /\ file_before.k = "map"
    /\ DOMAIN file_before.devices = {"sw1", "sw2"}
    /\ DOMAIN polled = {"sw2", "sw3"}
    /\ stats_file.devices["sw1"] = "old"
    /\ stats_file.devices["sw2"] = "error"

(***************************************************************************)
(* The listing step of get_juniper_uplink_stats with its progress lines:   *)
(* the JSON listing is read and parsed; with no candidate from it the XML  *)
(* listing is asked for, its interface elements are parsed and the names   *)
(* are deduplicated. The worker always passes a log callback.              *)
(***************************************************************************)
MaxXmlElems == 3

\* the interface elements an XML reply may hold, duplicates of a name included;
\* <<>> is also what a reply without a parseable rpc-reply gives
FallEntries == [name : {"et-0/0/1", "ae1.0", "et-0/0/1.5"},
                description : Descs, oper : {"up", "down"}]
XmlReplies == UNION {[1..n -> FallEntries] : n \in 0..MaxXmlElems}

\* parse_juniper_uplinks(desc_data, require_link_up=True) of any parsed object:
\* {} has no "interface-information"
json_candidates(desc_data) ==
    IF desc_data.k = "obj" THEN parse_juniper_uplinks(desc_data, TRUE) ELSE <<>>

FallInit ==
    /\ fpc = "-"
    /\ jpc = "json_read"
    /\ json_listing = [k |-> "none", uplinks |-> <<>>]
    /\ xml_elems = <<>>
    /\ jun_uplinks = <<>>
    /\ jun_sent = <<>>
    /\ jun_log = <<>>
    /\ MergeIdle
    /\ ParsersIdle
    /\ RowsIdle
    /\ ReportIdle
    /\ NameIdle
    /\ KindIdle
    /\ ProgressIdle
    /\ ClockIdle
    /\ JsonIdle
    /\ PromptIdle
    /\ XmlIdle
    /\ ListingIdle
    /\ FleetIdle
    /\ SessionIdle
    /\ ChannelIdle
    /\ LoginIdle

FallKeeps ==
    /\ UNCHANGED <<kindVars, lockVars, clockVars, mergeVars>>
    /\ UNCHANGED <<parseVars, rowVars, reportVars, nameVars>>
    /\ UNCHANGED <<fpc, jtext, jout, ptext, pgot, pwhy, xtext, blocks, listing,
                   candidates, probed>>
    /\ UNCHANGED notFun

\* desc_data = read_until_json_and_prompt(...); "if not desc_data:" two lines
\* and the error; uplinks = parse_juniper_uplinks(desc_data, require_link_up=True)
ReadJsonListing ==
    /\ jpc = "json_read"
    /\ \E desc_data \in {NoData, EmptyObject} \cup JListings :
          /\ json_listing' = [k |-> desc_data.k, uplinks |-> json_candidates(desc_data)]
          /\ IF Falsy(desc_data)
             THEN /\ jun_log' = jun_log \o <<"no json listing", "elapsed">>
                  /\ jpc' = "returned"
                  /\ jun_uplinks' = jun_uplinks
             ELSE /\ jun_uplinks' = parse_juniper_uplinks(desc_data, TRUE)
                  /\ jpc' = IF jun_uplinks' = <<>> THEN "fallback" ELSE "found"
                  /\ jun_log' = jun_log
    /\ UNCHANGED <<xml_elems, jun_sent>>
    /\ FallKeeps

\* "if not uplinks:" _log("... пробуем display xml ...")
LogFallback ==
    /\ jpc = "fallback"
    /\ jun_log' = Append(jun_log, "trying display xml")
    /\ jpc' = "xml_send"
    /\ UNCHANGED <<json_listing, xml_elems, jun_uplinks, jun_sent>>
    /\ FallKeeps

\* send("show interfaces descriptions | display xml | no-more\r\n")
SendXmlListing ==
    /\ jpc = "xml_send"
    /\ jun_sent' = Append(jun_sent, "listing-xml")
    /\ jpc' = "xml_read"
    /\ UNCHANGED <<json_listing, xml_elems, jun_uplinks, jun_log>>
    /\ FallKeeps

\* channel.send or channel.recv raises
FallRaise ==
    /\ jpc \in {"xml_send", "xml_read"}
    /\ jpc' = "raised"
    /\ UNCHANGED <<json_listing, xml_elems, jun_uplinks, jun_sent, jun_log>>
    /\ FallKeeps

\* xml_text = read_until_prompt(...); for every interface-information root
\* uplinks.extend(parse_juniper_uplinks_from_xml(root, require_link_up=True));
\* the deduplication by name; "if not uplinks:" the line and return [], None
ReadXmlListing ==
    /\ jpc = "xml_read"
    /\ \E elems \in XmlReplies :
          /\ xml_elems' = elems
          /\ jun_uplinks' = dedup_by_name(
                 jun_uplinks \o parse_juniper_uplinks_from_xml(elems, TRUE), {})
    /\ IF jun_uplinks' = <<>>
       THEN /\ jun_log' = Append(jun_log, "no uplinks with link up")
            /\ jpc' = "returned"
       ELSE /\ jun_log' = jun_log
            /\ jpc' = "found"
    /\ UNCHANGED <<json_listing, jun_sent>>
    /\ FallKeeps

\* _log("SSH: найдено uplink-интерфейсов (link up): {}".format(len(uplinks)))
LogFound ==
    /\ jpc = "found"
    /\ jun_log' = Append(jun_log, "found")
    /\ jpc' = "loop"
    /\ UNCHANGED <<json_listing, xml_elems, jun_uplinks, jun_sent>>
    /\ FallKeeps

FallNext ==
    \/ ReadJsonListing
    \/ LogFallback
    \/ SendXmlListing
    \/ FallRaise
    \/ ReadXmlListing
    \/ LogFound

SpecFallback == FallInit /\ [][FallNext]_vars

XmlSent == \E i \in 1..Len(jun_sent) : jun_sent[i] = "listing-xml"
XmlWasRead == XmlSent /\ jpc \in {"returned", "found", "loop"}

\* the first n elements of q without those whose name came before
RECURSIVE FirstOccurrences(_, _)
FirstOccurrences(q, n) ==
    IF n = 0 THEN <<>>
    ELSE FirstOccurrences(q, n - 1)
         \o (IF \E j \in 1..(n - 1) : q[j].name = q[n].name THEN <<>> ELSE <<q[n]>>)

XmlKept == parse_juniper_uplinks_from_xml(xml_elems, TRUE)

\* C32: once the step is over without an exception, the XML listing command
\* was sent exactly if the JSON listing was parsed and gave no candidate; the
\* line about the fallback was logged whenever the command was sent; and the
\* candidates taken from the XML reply are its kept elements with every name
\* once, at its first place
C32_XmlFallback ==
    /\ jpc \in {"returned", "found", "loop"} =>
          (XmlSent <=> (json_listing.k # "none" /\ json_listing.uplinks = <<>>))
    /\ XmlSent => Contains(jun_log, "trying display xml")
    /\ XmlWasRead =>
          /\ \A i, j \in 1..Len(jun_uplinks) :
                jun_uplinks[i].name = jun_uplinks[j].name => i = j
          /\ jun_uplinks = FirstOccurrences(XmlKept, Len(XmlKept))

\* the same with "parsed" taken as: read as an object that is not empty
XmlFallbackForObject ==
    /\ jpc \in {"returned", "found", "loop"} =>
          (XmlSent <=> (json_listing.k = "obj" /\ json_listing.uplinks = <<>>))
    /\ XmlSent => Contains(jun_log, "trying display xml")
    /\ XmlWasRead =>
          /\ \A i, j \in 1..Len(jun_uplinks) :
                jun_uplinks[i].name = jun_uplinks[j].name => i = j
          /\ jun_uplinks = FirstOccurrences(XmlKept, Len(XmlKept))

\* a reply that names one interface twice with another between
FallbackWitness ==
    /\ jpc = "loop"
    /\ Len(xml_elems) = 3
    /\ Len(XmlKept) = 3
    /\ xml_elems[1].name = xml_elems[3].name
    /\ Len(jun_uplinks) = 2

(***************************************************************************)
(* The two parsers of the Juniper listing on the same interfaces. A device *)
(* shows its interfaces in one order, a physical interface followed by its *)
(* units. The XML rendering holds one element per interface in that order; *)
(* the JSON rendering holds the physical interfaces in one array and the   *)
(* logical ones in another.                                                *)
(***************************************************************************)
\* the names an element may carry; "" is an element without a name
TableNames == JNamePool \cup {""}
TableEntries == [name : TableNames, description : Descs, oper : {"up", "down", "None"}]
Tables == UNION {[1..n -> TableEntries] : n \in 0..MaxJListing}

\* {"interface-information": [{"physical-interface": [...], "logical-interface": [...]}]}
JsonRendering(t) ==
    [k |-> "obj",
     physical |-> SelectSeq(t, LAMBDA e : ~HasDot(e.name)),
     logical |-> SelectSeq(t, LAMBDA e : HasDot(e.name))]

\* the physical-interface and logical-interface elements met by xml_root.iter()
XmlRendering(t) == t

ParsersInit ==
    /\ fpc = "-"
    /\ ppc = "call"
    /\ table \in Tables
    /\ link_up_only \in BOOLEAN
    /\ from_json = <<>>
    /\ from_xml = <<>>
    /\ MergeIdle
    /\ FallIdle
    /\ RowsIdle
    /\ ReportIdle
    /\ NameIdle
    /\ KindIdle
    /\ ProgressIdle
    /\ ClockIdle
    /\ JsonIdle
    /\ PromptIdle
    /\ XmlIdle
    /\ ListingIdle
    /\ FleetIdle
    /\ SessionIdle
    /\ ChannelIdle
    /\ LoginIdle

\* parse_juniper_uplinks(json_data, require_link_up) and
\* parse_juniper_uplinks_from_xml(xml_root, require_link_up)
ApplyParsers ==
    /\ ppc = "call"
    /\ from_json' = parse_juniper_uplinks(JsonRendering(table), link_up_only)
    /\ from_xml' = parse_juniper_uplinks_from_xml(XmlRendering(table), link_up_only)
    /\ ppc' = "return"
    /\ UNCHANGED <<table, link_up_only>>
    /\ UNCHANGED <<kindVars, lockVars, clockVars, mergeVars, fallVars, rowVars>>
    /\ UNCHANGED <<reportVars, nameVars>>
    /\ UNCHANGED <<fpc, jtext, jout, ptext, pgot, pwhy, xtext, blocks, listing,
                   candidates, probed>>
    /\ UNCHANGED notFun

ParsersNext == ApplyParsers

SpecParsers == ParsersInit /\ [][ParsersNext]_vars

\* the returned pairs of both parsers
ReturnedPairs == SeqToSet(from_json) \cup SeqToSet(from_xml)

\* a returned pair is well formed: a name, the marker, and no unit but 0
WellFormed(r) ==
    /\ r.name # ""
    /\ HasMarker(r.description)
    /\ ~HasDot(r.name) \/ SplitLast(r.name) = "0"

\* the table shows the interface of a returned pair with this oper-status
ShownWith(r, opers) ==
    \E i \in 1..Len(table) :
        /\ table[i].name = r.name
        /\ table[i].description = r.description
        /\ table[i].oper \in opers

\* C33: every pair returned by either parser has a name, a description with the
\* marker, and is physical or unit 0; with require_link_up only interfaces the
\* table shows as up are returned, and none it shows otherwise; and the two
\* parsers return the same list
C33_ParsersAgree ==
    ppc = "return" =>
        /\ \A r \in ReturnedPairs : WellFormed(r)
        /\ link_up_only =>
              \A r \in ReturnedPairs : ShownWith(r, {"up"}) /\ ~ShownWith(r, {"down", "None"})
        /\ from_json = from_xml

\* what holds of both: the pairs are well formed; with require_link_up none is
\* of an interface shown only as down; the two lists hold the same pairs, and
\* are the same list when the kept interfaces are all physical or all logical
ParsersAgreeUpToOrder ==
    ppc = "return" =>
        /\ \A r \in ReturnedPairs : WellFormed(r)
        /\ link_up_only => \A r \in ReturnedPairs : ShownWith(r, {"up", "None"})
        /\ SeqToSet(from_json) = SeqToSet(from_xml)
        /\ Len(from_json) = Len(from_xml)
        /\ (\A r \in ReturnedPairs : HasDot(r.name)) \/ (\A r \in ReturnedPairs : ~HasDot(r.name))
              => from_json = from_xml

\* a unit 0 shown before a physical interface, both kept
ParsersWitness ==
    /\ ppc = "return"
    /\ link_up_only
    /\ Len(from_xml) = 2
    /\ from_xml[1].name = "ae1.0"
    /\ from_json[1].name = "et-0/0/1"

(***************************************************************************)
(* The loop of get_juniper_uplink_stats over the candidates, as far as the *)
(* rows and their aggregate fields go. A candidate may come twice in the   *)
(* list parsed from JSON, and a member an aggregate reports may be a       *)
(* candidate of its own.                                                   *)
(***************************************************************************)
MaxCands == 3
MaxLagMembers == 2

RowNames == {"et-0/0/1", "ae1.0", "ae2.0", "ae1"}
RowUplinks == UNION {[1..n -> RowNames] : n \in 0..MaxCands}
\* what _juniper_lacp_member_names may return; <<>> also stands for a failed read
LagMemberLists == DistinctSeqs({"et-0/0/1", "et-0/0/2"}, MaxLagMembers)

\* the aggregate fields of agg_row; the other fields come from ae_stats
lag_row(aggregate, logical_name) ==
    [name |-> aggregate, physicalInterface |-> aggregate,
     aggregateInterface |-> aggregate, logicalInterface |-> logical_name, isLag |-> TRUE]

\* the same of a member's or a physical candidate's row, which has no isLag key
member_row(physical_name, aggregate, logical_name) ==
    [name |-> physical_name, physicalInterface |-> physical_name,
     aggregateInterface |-> aggregate, logicalInterface |-> logical_name, isLag |-> FALSE]

\* a variant without the test of aggregates_added
lag_row_due_always(aggregate, added) == aggregate # "None"

\* "if aggregate_name and aggregate_name not in aggregates_added:"
lag_row_due(aggregate, added) == aggregate # "None" /\ aggregate \notin added

RowsInit ==
    /\ fpc = "-"
    /\ rowpc = "for"
    /\ row_uplinks \in RowUplinks
    /\ row_idx = 0
    /\ row_aggregate = "None"
    /\ row_members = <<>>
    /\ lags_added = {}
    /\ rows = <<>>
    /\ MergeIdle
    /\ FallIdle
    /\ ParsersIdle
    /\ ReportIdle
    /\ NameIdle
    /\ KindIdle
    /\ ProgressIdle
    /\ ClockIdle
    /\ JsonIdle
    /\ PromptIdle
    /\ XmlIdle
    /\ ListingIdle
    /\ FleetIdle
    /\ SessionIdle
    /\ ChannelIdle
    /\ LoginIdle

RowsKeeps ==
    /\ UNCHANGED <<kindVars, lockVars, clockVars, mergeVars, fallVars, parseVars>>
    /\ UNCHANGED <<reportVars, nameVars>>
    /\ UNCHANGED <<fpc, jtext, jout, ptext, pgot, pwhy, xtext, blocks, listing,
                   candidates, probed>>
    /\ UNCHANGED notFun

\* "for logical_name, desc in uplinks:" is_physical, aggregate_name and
\* physical_names, with the members the device reports for the aggregate
TakeCandidate ==
    /\ rowpc = "for"
    /\ row_idx < Len(row_uplinks)
    /\ row_idx' = row_idx + 1
    /\ LET logical_name == row_uplinks[row_idx + 1]
           is_physical == ~HasDot(logical_name) /\ ~StartsWithAe(logical_name)
       IN IF is_physical
          THEN /\ row_members' = <<logical_name>>
               /\ row_aggregate' = "None"
          ELSE /\ row_aggregate' = IF HasDot(logical_name)
                                    THEN SplitFirst(logical_name) ELSE "None"
               /\ IF row_aggregate' # "None"
                  THEN row_members' \in LagMemberLists
                  ELSE row_members' = <<>>
    /\ rowpc' = "lag"
    /\ UNCHANGED <<row_uplinks, lags_added, rows>>
    /\ RowsKeeps

\* once per aggregate: the row with isLag
AddLagRow ==
    /\ rowpc = "lag"
    /\ IF lag_row_due(row_aggregate, lags_added)
       THEN /\ rows' = Append(rows, lag_row(row_aggregate, row_uplinks[row_idx]))
            /\ lags_added' = lags_added \cup {row_aggregate}
       ELSE UNCHANGED <<rows, lags_added>>
    /\ rowpc' = "members"
    /\ UNCHANGED <<row_uplinks, row_idx, row_aggregate, row_members>>
    /\ RowsKeeps

\* "for physical_name in physical_names:" a row each
AddMemberRows ==
    /\ rowpc = "members"
    /\ rows' = rows \o [i \in 1..Len(row_members) |->
                           member_row(row_members[i], row_aggregate, row_uplinks[row_idx])]
    /\ rowpc' = "for"
    /\ UNCHANGED <<row_uplinks, row_idx, row_aggregate, row_members, lags_added>>
    /\ RowsKeeps

\* the loop is over: return result, None
ReturnRows ==
    /\ rowpc = "for"
    /\ row_idx = Len(row_uplinks)
    /\ rowpc' = "returned"
    /\ UNCHANGED <<row_uplinks, row_idx, row_aggregate, row_members, lags_added, rows>>
    /\ RowsKeeps

RowsNext ==
    \/ TakeCandidate
    \/ AddLagRow
    \/ AddMemberRows
    \/ ReturnRows

SpecRows == RowsInit /\ [][RowsNext]_vars

\* C35: in the list of rows no aggregate has two rows with isLag; a row
\* written for a member of an aggregate candidate names the aggregate and comes
\* after the aggregate's row with isLag; the row of a physical candidate has
\* aggregateInterface null
C35_LagRows ==
    /\ \A i, j \in 1..Len(rows) :
          (rows[i].isLag /\ rows[j].isLag /\ rows[i].name = rows[j].name) => i = j
    /\ \A j \in 1..Len(rows) :
          ~rows[j].isLag =>
              IF HasDot(rows[j].logicalInterface)
              THEN /\ rows[j].aggregateInterface = SplitFirst(rows[j].logicalInterface)
                   /\ \E i \in 1..(j - 1) :
                         rows[i].isLag /\ rows[i].name = rows[j].aggregateInterface
              ELSE rows[j].aggregateInterface = "None"

\* two candidates of one aggregate, each with a member, and a physical
\* candidate that is also that member
C35_Witness ==
    /\ rowpc = "returned"
    /\ row_uplinks = <<"et-0/0/1", "ae1.0", "ae1.0">>
    /\ Len(rows) = 4
    /\ rows[2].isLag
    /\ rows[3].name = "et-0/0/1"
    /\ rows[4].name = "et-0/0/1"

(***************************************************************************)
(* Report mode. _run_report submits process_one_device for every device,   *)
(* stores a row under the device's name for every future as_completed      *)
(* yields, and after the pool builds the table from the input list.        *)
(***************************************************************************)
MaxReport == 3

ReportNames == {"sw1", "sw2"}
\* the devices NetBox returned for the tag: "if not devices" has ended the run
\* for an empty list; two devices may carry one name
ReportLists == UNION {[1..n -> ReportNames] : n \in 1..MaxReport}

\* the tuple process_one_device returns, and the one the except branch builds
worker_row(name) == [device |-> name, ssh |-> "cell"]
exception_row(name) == [device |-> name, ssh |-> "exception"]

\* a variant that stores nothing
store_row_none(res, name, row) == res

\* results_by_name[device.name] = row
store_row(res, name, row) == [n \in DOMAIN res \cup {name} |-> IF n = name THEN row ELSE res[n]]

ReportInit ==
    /\ fpc = "-"
    /\ reppc = "pool"
    /\ report_devices \in ReportLists
    /\ report_future = [i \in 1..Len(report_devices) |-> "running"]
    /\ report_done = <<>>
    /\ report_consumed = {}
    /\ results_by_name = <<>>
    /\ table_rows = <<>>
    /\ MergeIdle
    /\ FallIdle
    /\ ParsersIdle
    /\ RowsIdle
    /\ NameIdle
    /\ KindIdle
    /\ ProgressIdle
    /\ ClockIdle
    /\ JsonIdle
    /\ PromptIdle
    /\ XmlIdle
    /\ ListingIdle
    /\ FleetIdle
    /\ SessionIdle
    /\ ChannelIdle
    /\ LoginIdle

ReportKeeps ==
    /\ UNCHANGED <<kindVars, lockVars, clockVars, mergeVars, fallVars, parseVars, rowVars>>
    /\ UNCHANGED nameVars
    /\ UNCHANGED <<fpc, jtext, jout, ptext, pgot, pwhy, xtext, blocks, listing,
                   candidates, probed>>
    /\ UNCHANGED notFun

\* process_one_device of the i-th device returns its tuple or raises
ReportWorkerEnds(i) ==
    /\ reppc = "pool"
    /\ report_future[i] = "running"
    /\ \E how \in {"returned", "raised"} :
          report_future' = [report_future EXCEPT ![i] = how]
    /\ report_done' = Append(report_done, i)
    /\ UNCHANGED <<reppc, report_devices, report_consumed, results_by_name, table_rows>>
    /\ ReportKeeps

\* one turn of "for future in as_completed(future_to_device):" with the i-th
\* future. try: the row is stored and "готово." printed; except (future.result()
\* or that print raised): the error line is printed and the exception row
\* stored. A print that raises in the except branch ends _run_report.
ReportCollect(i) ==
    /\ reppc = "pool"
    /\ report_future[i] \in {"returned", "raised"}
    /\ i \notin report_consumed
    /\ report_consumed' = report_consumed \cup {i}
    /\ LET name == report_devices[i]
           stored == IF report_future[i] = "returned"
                     THEN store_row(results_by_name, name, worker_row(name))
                     ELSE results_by_name
       IN \E done_printed, error_printed \in BOOLEAN :
             IF report_future[i] = "returned" /\ done_printed
             THEN /\ results_by_name' = stored
                  /\ reppc' = reppc
             ELSE IF error_printed
             THEN /\ results_by_name' = store_row(stored, name, exception_row(name))
                  /\ reppc' = reppc
             ELSE /\ results_by_name' = stored
                  /\ reppc' = "raised"
    /\ UNCHANGED <<report_devices, report_future, report_done, table_rows>>
    /\ ReportKeeps

\* the with block is left when every future was taken;
\* rows = [results_by_name[d.name] for d in devices], or KeyError
BuildRows ==
    /\ reppc = "pool"
    /\ report_consumed = DOMAIN report_devices
    /\ IF \A i \in DOMAIN report_devices : report_devices[i] \in DOMAIN results_by_name
       THEN /\ table_rows' = [i \in DOMAIN report_devices |-> results_by_name[report_devices[i]]]
            /\ reppc' = "table"
       ELSE /\ table_rows' = table_rows
            /\ reppc' = "KeyError"
    /\ UNCHANGED <<report_devices, report_future, report_done, report_consumed,
                   results_by_name>>
    /\ ReportKeeps

\* the header and "for row in rows:" the lines of every row; return 0
PrintTable ==
    /\ reppc = "table"
    /\ reppc' = "returned"
    /\ UNCHANGED <<report_devices, report_future, report_done, report_consumed,
                   results_by_name, table_rows>>
    /\ ReportKeeps

ReportNext ==
    \/ \E i \in 1..MaxReport : i \in DOMAIN report_devices /\ ReportWorkerEnds(i)
    \/ \E i \in 1..MaxReport : i \in DOMAIN report_devices /\ ReportCollect(i)
    \/ BuildRows
    \/ PrintTable

SpecReport == ReportInit /\ [][ReportNext]_vars

\* C36: building the table never fails on a missing device; once the pool is
\* over every device of the list has a row under its name, whether its worker
\* returned or raised; and the table has one row per device of the list, the
\* i-th row being that of the i-th device
C36_RowForEveryDevice ==
    /\ reppc # "KeyError"
    /\ (reppc = "pool" /\ report_consumed = DOMAIN report_devices) =>
          \A i \in DOMAIN report_devices : report_devices[i] \in DOMAIN results_by_name
    /\ reppc \in {"table", "returned"} =>
          /\ Len(table_rows) = Len(report_devices)
          /\ \A i \in DOMAIN report_devices : table_rows[i].device = report_devices[i]

\* the second device finished before the first, and raised: the table is in
\* the order of the list
C36_Witness ==
    /\ reppc = "returned"
    /\ report_devices = <<"sw1", "sw2">>
    /\ report_done = <<2, 1>>
    /\ report_future[2] = "raised"
    /\ table_rows = <<worker_row("sw1"), exception_row("sw2")>>

(***************************************************************************)
(* arista_cli_interface_name and its use in one turn of the Arista loop:   *)
(* re.sub(r"([a-zA-Z]+)(\d)", r"\1 \2", name).strip().lower(). A name is   *)
(* the sequence of its characters.                                         *)
(***************************************************************************)
MaxName == 4

NameChars == {"E", "t", "7", "/", " "}
Names == UNION {[1..n -> NameChars] : n \in 0..MaxName}

IsLetter(ch) == ch \in {"E", "t", "e"}
IsDigit(ch) == ch = "7"

\* the last place of the run of letters that begins at pos
RECURSIVE LetterRunEnd(_, _)
LetterRunEnd(text, pos) ==
    IF pos < Len(text) /\ IsLetter(text[pos + 1]) THEN LetterRunEnd(text, pos + 1) ELSE pos

\* re.sub with count=1: the first match only is replaced
RECURSIVE re_sub_once(_, _)
re_sub_once(text, pos) ==
    IF pos > Len(text) THEN <<>>
    ELSE IF IsLetter(text[pos])
              /\ LetterRunEnd(text, pos) < Len(text)
              /\ IsDigit(text[LetterRunEnd(text, pos) + 1])
    THEN SubSeq(text, pos, LetterRunEnd(text, pos)) \o <<" ">>
         \o SubSeq(text, LetterRunEnd(text, pos) + 1, Len(text))
    ELSE <<text[pos]>> \o re_sub_once(text, pos + 1)

\* re.sub(r"([a-zA-Z]+)(\d)", r"\1 \2", text) from pos on: a match at pos is the
\* whole run of letters and the digit after it; it is replaced by the run, a
\* space and the digit, and the search goes on after the digit
RECURSIVE re_sub(_, _)
re_sub(text, pos) ==
    IF pos > Len(text) THEN <<>>
    ELSE IF IsLetter(text[pos])
              /\ LetterRunEnd(text, pos) < Len(text)
              /\ IsDigit(text[LetterRunEnd(text, pos) + 1])
    THEN SubSeq(text, pos, LetterRunEnd(text, pos)) \o <<" ">>
         \o <<text[LetterRunEnd(text, pos) + 1]>>
         \o re_sub(text, LetterRunEnd(text, pos) + 2)
    ELSE <<text[pos]>> \o re_sub(text, pos + 1)

\* str.strip()
RECURSIVE strip(_)
strip(text) ==
    IF text = <<>> THEN <<>>
    ELSE IF Head(text) = " " THEN strip(Tail(text))
    ELSE IF text[Len(text)] = " " THEN strip(SubSeq(text, 1, Len(text) - 1))
    ELSE text

\* str.lower()
lower_char(ch) == IF ch = "E" THEN "e" ELSE ch
lower(text) == [i \in 1..Len(text) |-> lower_char(text[i])]

\* a variant with re.sub(..., count=1)
arista_cli_interface_name_once(name) == lower(strip(re_sub_once(name, 1)))

\* arista_cli_interface_name
arista_cli_interface_name(name) == lower(strip(re_sub(name, 1)))

NameInit ==
    /\ fpc = "-"
    /\ npc = "for"
    /\ iface_name \in Names
    /\ cli_name = <<>>
    /\ cli_again = <<>>
    /\ name_cmds = <<>>
    /\ lookup_keys = <<>>
    /\ MergeIdle
    /\ FallIdle
    /\ ParsersIdle
    /\ RowsIdle
    /\ ReportIdle
    /\ KindIdle
    /\ ProgressIdle
    /\ ClockIdle
    /\ JsonIdle
    /\ PromptIdle
    /\ XmlIdle
    /\ ListingIdle
    /\ FleetIdle
    /\ SessionIdle
    /\ ChannelIdle
    /\ LoginIdle

NameKeeps ==
    /\ UNCHANGED <<kindVars, lockVars, clockVars, mergeVars, fallVars, parseVars, rowVars>>
    /\ UNCHANGED reportVars
    /\ UNCHANGED <<fpc, jtext, jout, ptext, pgot, pwhy, xtext, blocks, listing,
                   candidates, probed>>
    /\ UNCHANGED notFun

\* cli_name = arista_cli_interface_name(iface_name)
TakeCliName ==
    /\ npc = "for"
    /\ cli_name' = arista_cli_interface_name(iface_name)
    /\ npc' = "detail"
    /\ UNCHANGED <<iface_name, cli_again, name_cmds, lookup_keys>>
    /\ NameKeeps

\* send("show interfaces {} | json | no-more\r\n".format(cli_name)) and
\* send("show interfaces {} transceiver | json | no-more\r\n".format(cli_name))
SendNamedCommands ==
    /\ npc = "detail"
    /\ name_cmds' = name_cmds \o <<[cmd |-> "detail", name |-> cli_name],
                                   [cmd |-> "transceiver", name |-> cli_name]>>
    /\ npc' = "get"
    /\ UNCHANGED <<iface_name, cli_name, cli_again, lookup_keys>>
    /\ NameKeeps

\* if_obj = if_data.get(iface_name) or {}; trans_obj = trans_data.get(iface_name) or {}
LookUpResponses ==
    /\ npc = "get"
    /\ lookup_keys' = lookup_keys \o <<iface_name, iface_name>>
    /\ npc' = "switchport"
    /\ UNCHANGED <<iface_name, cli_name, cli_again, name_cmds>>
    /\ NameKeeps

\* for an interface that is up and bridged: the switchport command and
\* sw_interfaces.get(iface_name); for any other none
NamedSwitchport ==
    /\ npc = "switchport"
    /\ \E asked \in BOOLEAN :
          IF asked
          THEN /\ name_cmds' = Append(name_cmds, [cmd |-> "switchport", name |-> cli_name])
               /\ lookup_keys' = Append(lookup_keys, iface_name)
          ELSE UNCHANGED <<name_cmds, lookup_keys>>
    /\ npc' = "again"
    /\ UNCHANGED <<iface_name, cli_name, cli_again>>
    /\ NameKeeps

\* the function applied to its own result
ApplyAgain ==
    /\ npc = "again"
    /\ cli_again' = arista_cli_interface_name(cli_name)
    /\ npc' = "done"
    /\ UNCHANGED <<iface_name, cli_name, name_cmds, lookup_keys>>
    /\ NameKeeps

NameNext ==
    \/ TakeCliName
    \/ SendNamedCommands
    \/ LookUpResponses
    \/ NamedSwitchport
    \/ ApplyAgain

SpecCliName == NameInit /\ [][NameNext]_vars

\* the places of a name where a letter is followed by a digit
Boundaries(text) ==
    {i \in 1..(Len(text) - 1) : IsLetter(text[i]) /\ IsDigit(text[i + 1])}
BoundariesBefore(text, i) == Cardinality({b \in Boundaries(text) : b < i})

\* out is text in lower case with one space more at every boundary
SpacedAndLowered(text, out) ==
    /\ Len(out) = Len(text) + Cardinality(Boundaries(text))
    /\ \A i \in 1..Len(text) : out[i + BoundariesBefore(text, i)] = lower_char(text[i])
    /\ \A b \in Boundaries(text) : out[b + BoundariesBefore(text, b) + 1] = " "

NoOuterSpace(text) == text = <<>> \/ (Head(text) # " " /\ text[Len(text)] # " ")

\* C37: for a name as a device gives it (no space at either end) the CLI name
\* is the name in lower case with one space put in wherever a letter is
\* followed by a digit; the function applied to its result changes nothing;
\* every command of the turn carries the CLI name and every response is looked
\* up under the name as given
C37_CliName ==
    /\ (npc # "for" /\ NoOuterSpace(iface_name)) => SpacedAndLowered(iface_name, cli_name)
    /\ npc = "done" => cli_again = cli_name
    /\ \A i \in 1..Len(name_cmds) : name_cmds[i].name = cli_name
    /\ \A i \in 1..Len(lookup_keys) : lookup_keys[i] = iface_name

\* the name "Et7t7" cut to the bound: two boundaries, three commands
C37_Witness ==
    /\ npc = "done"
    /\ iface_name = <<"E", "7", "t", "7">>
    /\ cli_name = <<"e", " ", "7", "t", " ", "7">>
    /\ Len(name_cmds) = 3
    /\ cli_name # iface_name

\* "Ethernet72/1" cut to the bound
SlashNameWitness ==
    /\ npc = "done"
    /\ iface_name = <<"E", "t", "7", "/">>
    /\ cli_name = <<"e", "t", " ", "7", "/">>

Count(q, x) == Cardinality({i \in 1..Len(q) : q[i] = x})

\* the pieces that carry the word password, in whatever case
HasPasswordToken(text) ==
    \E i \in 1..Len(text) : text[i] \in {"Password: ", "PASSWORD: "}

\* the handshake has got past the username line / past the password test
PastUser == lwait >= 2
PastPassword == lwait = 3

\* what is left of the handshake: the program points still ahead, the seconds
\* the running read may still wait, and the output still to be moved
StepsAhead ==
    CASE lpc = "raised" -> 0
      [] lpc = "done" -> 1
      [] lpc = "send_listing" -> 2
      [] lpc = "wait" /\ lwait = 3 -> 3
      [] lpc = "password" -> 4
      [] lpc = "wait" /\ lwait = 2 -> 5
      [] lpc = "send_user" -> 6
      [] OTHER -> 7
LoginMeasure ==
    StepsAhead * 100
    + (IF lpc = "wait" THEN max_wait(lwait) - lelapsed ELSE 0)
    + 2 * Len(ldev) + Len(lwire)

LoginShape ==
    /\ lwait \in 1..3
    /\ lelapsed <= max_wait(lwait)
    /\ max_wait(1) = 20 /\ max_wait(2) = 20 /\ max_wait(3) = 25
    /\ Count(lsent, "username") = (IF PastUser THEN 1 ELSE 0)
    /\ Count(lsent, "password") =
           (IF PastPassword /\ HasPasswordToken(out_after_user) THEN 1 ELSE 0)
    /\ lpc = "done" => Head(lsent) = "username"

\* C13: the handshake makes at most three waits, none longer than its
\* max_wait (20, 20 and 25 s); the username line is sent exactly once, the
\* password line once if the text returned after the username carries a
\* password token and never otherwise; and every step brings the handshake
\* nearer to its end, whatever the device writes or does not write.
C13_LoginTerminates ==
    /\ []LoginShape
    /\ [][LoginMeasure' < LoginMeasure]_vars

\* the handshake is over for a device that asked for the password in capitals
\* and then fell silent: the third wait ended at its deadline
C13_Witness ==
    /\ lpc = "done"
    /\ lsent = <<"username", "password", "listing">>
    /\ 3 \in expired
    /\ \E i \in 1..Len(out_after_user) : out_after_user[i] = "PASSWORD: "

\* the same for a device that writes nothing at all
SilentDeviceWitness ==
    /\ lpc = "done"
    /\ expired = {1, 2, 3}
    /\ lsent = <<"username", "listing">>

(***************************************************************************)
(* Properties of one session                                               *)
(***************************************************************************)
SentCmds == SeqToSet(sent)
Rows == IF ret.how = "list" THEN SeqToSet(ret.data) ELSE {}
IsPhysicalName(n) == ~HasDot(n) /\ ~StartsWithAe(n)

\* the worker's side of a skip: a device whose platform is neither Arista nor
\* Juniper (or, in arista_uplinks_stats.py, not Arista) is answered with null,
\* no connection is opened and nothing is sent; and whatever a worker returns
\* is null, an error object or a list
SkipWithoutSession ==
    spc = "returned" =>
        /\ (kind = "-") = (worker_entry(ret) = NullEntry)
        /\ kind = "-" => sclient = "none" /\ sent = <<>>
        /\ worker_entry(ret).shape \in {"null", "error", "list"}

\* C3: once the function has returned or raised after a successful connect,
\* close() has been called on the client exactly once.
C3_ClosedExactlyOnce ==
    (spc \in {"returned", "raised"} /\ sclient # "none") => sclose = 1

\* the commands the pipeline owes a candidate once the bootstrap listing is in
CandidateServed(c) ==
    IF kind = "arista"
    THEN Cmd("detail", c.name) \in SentCmds /\ Cmd("transceiver", c.name) \in SentCmds
    ELSE IF IsPhysicalName(c.name)
         THEN Cmd("detail", c.name) \in SentCmds /\ Cmd("optics", c.name) \in SentCmds
         ELSE HasDot(c.name) => Cmd("lacp", SplitFirst(c.name)) \in SentCmds

\* C6: a bootstrap read without payload ends the session as an error with no
\* further command sent; a later read without payload never does: an error is
\* returned only before the second command, and a session that returns its list
\* has sent the commands of every candidate, whichever reads failed.
C6_BootstrapFatalOthersNot ==
    /\ bootstrap = "none" =>
           /\ spc = "returned"
           /\ ret.how = "error"
           /\ sent = <<Cmd("listing", "")>>
    /\ (spc = "returned" /\ ret.how = "error") =>
           /\ Len(sent) <= 1
           /\ failedReads \subseteq {1}
    /\ (spc = "returned" /\ ret.how = "list") =>
           \A i \in 1..Len(uplinks) : CandidateServed(uplinks[i])

\* the texts a failed connect can hand back
ConnectErrors == {e : e \in ConnectCauses} \cup {e \o " (elapsed)" : e \in ConnectCauses}

\* C14: a worker whose connect failed returns an error that carries the cause
\* of the failure, having opened no session and sent nothing; and once the
\* connect has succeeded, no return of the worker carries a connect error.
C14_ConnectFailure ==
    /\ (spc = "returned" /\ kind # "-" /\ sclient = "none") =>
           /\ ret.how = "error"
           /\ ret.err \in ConnectErrors
           /\ sent = <<>>
           /\ probes = <<>>
           /\ sclose = 0
    /\ (spc \in {"returned", "raised"} /\ sclient # "none") =>
           ~(ret.how = "error" /\ ret.err \in ConnectErrors)
    /\ (spc \notin {"dispatch", "connect"} /\ kind # "-" /\ sclient = "none") =>
           spc = "returned"

\* the connect of a Juniper device timed out
C14_Witness ==
    /\ spc = "returned"
    /\ kind = "juniper"
    /\ sclient = "none"
    /\ ret = [how |-> "error", err |-> "timed out (elapsed)"]

\* a list was returned although a read after the bootstrap gave no payload, and
\* commands were sent after that read
C6_Witness ==
    /\ spc = "returned"
    /\ ret.how = "list"
    /\ \E p \in failedReads : p > 1 /\ p < Len(sent)

\* the row a candidate is owed when the reads in "failed" gave no payload:
\* the fields of a failed command are null, the others as without the failure
ExpectedRow(cand, p) ==
    arista_row(cand,
               IF "detail" \in p.failed THEN EmptyIf ELSE p.detail,
               IF "transceiver" \in p.failed THEN EmptyTrans ELSE ArTrans,
               IF Lower(p.detail.forwardingModel) = "bridged" /\ "switchport" \notin p.failed
               THEN "cli-config" ELSE "None")

\* C7: an Arista candidate whose interface is up and one of whose commands
\* gave no payload still has its row in the returned list, with the fields of
\* the other commands intact.
C7_RowKeptOnSingleFailure ==
    (spc = "returned" /\ ret.how = "list" /\ kind = "arista") =>
        \A i \in 1..Len(probes) :
            (OperUp(probes[i].detail) /\ Cardinality(probes[i].failed) = 1) =>
                ExpectedRow(uplinks[i], probes[i]) \in Rows

\* the same for a failure of the transceiver or the switchport query only
RowKeptOnLateFailure ==
    (spc = "returned" /\ ret.how = "list" /\ kind = "arista") =>
        \A i \in 1..Len(probes) :
            (OperUp(probes[i].detail) /\ Cardinality(probes[i].failed) = 1
             /\ "detail" \notin probes[i].failed) =>
                ExpectedRow(uplinks[i], probes[i]) \in Rows

\* the detail response of candidate i was read and says "bridged"
ReadAsBridged(i) ==
    "detail" \notin probes[i].failed /\ Lower(probes[i].detail.forwardingModel) = "bridged"

\* C22: when the list is returned, the switchport command has been sent for
\* exactly the Arista candidates whose detail response said "bridged", and the
\* member query for exactly the Juniper candidates that are aggregates.
C22_FollowUpsGated ==
    (spc = "returned" /\ ret.how = "list") =>
        /\ kind = "arista" =>
               \A i \in 1..Len(uplinks) :
                   Cmd("switchport", uplinks[i].name) \in SentCmds <=> ReadAsBridged(i)
        /\ kind = "juniper" =>
               \A i \in 1..Len(uplinks) :
                   Cmd("lacp", SplitFirst(uplinks[i].name)) \in SentCmds
                       <=> StartsWithAe(uplinks[i].name)

\* the switchport command is sent only for a candidate read as bridged, and in
\* arista_uplinks_stats.py for every such candidate
SwitchportOnlyIfBridged ==
    (spc = "returned" /\ ret.how = "list" /\ kind = "arista") =>
        \A i \in 1..Len(uplinks) :
            /\ Cmd("switchport", uplinks[i].name) \in SentCmds => ReadAsBridged(i)
            /\ (script = "arista_uplinks_stats" /\ ReadAsBridged(i))
                   => Cmd("switchport", uplinks[i].name) \in SentCmds

\* the Arista half of C22 alone
SwitchportExactlyIfBridged ==
    (spc = "returned" /\ ret.how = "list" /\ kind = "arista") =>
        \A i \in 1..Len(uplinks) :
            Cmd("switchport", uplinks[i].name) \in SentCmds <=> ReadAsBridged(i)

\* the Juniper half of C22 alone
MembersExactlyForAggregates ==
    (spc = "returned" /\ ret.how = "list" /\ kind = "juniper") =>
        \A i \in 1..Len(uplinks) :
            Cmd("lacp", SplitFirst(uplinks[i].name)) \in SentCmds
                <=> StartsWithAe(uplinks[i].name)

FailedCmds(c) == {k \in failedReads : k \in 1..Len(sent) /\ sent[k].cmd = c}

RECURSIVE InOrder(_, _, _)
InOrder(cmds, i, stage) ==
    IF cmds = <<>> THEN TRUE
    ELSE IF i > Len(uplinks) THEN FALSE
    ELSE \/ stage = 0 /\ Head(cmds) = Cmd("detail", uplinks[i].name)
                      /\ InOrder(Tail(cmds), i, 1)
         \/ stage = 1 /\ Head(cmds) = Cmd("transceiver", uplinks[i].name)
                      /\ InOrder(Tail(cmds), i, 2)
         \/ stage = 2 /\ Head(cmds) = Cmd("switchport", uplinks[i].name)
                      /\ InOrder(Tail(cmds), i, 3)
         \/ stage \in {2, 3} /\ InOrder(cmds, i + 1, 0)

ReadAsUp(i) ==
    "detail" \notin probes[i].failed /\ arista_interface_link_up(probes[i].detail)

\* the place of a row's candidate in the listing
PlaceOf(row) == CHOOSE i \in 1..Len(uplinks) : uplinks[i].name = row.name

\* the commands of an Arista session are in the fixed order, at every moment
AristaCommandsInOrder ==
    (kind = "arista" /\ sent # <<>>) =>
        /\ Head(sent) = Cmd("listing", "")
        /\ InOrder(Tail(sent), 1, 0)

\* the rows follow the order of the candidates, one row per candidate at most
AristaRowsInOrder ==
    kind = "arista" =>
        /\ \A a \in 1..Len(result) : \E i \in 1..Len(uplinks) : uplinks[i].name = result[a].name
        /\ \A a, b \in 1..Len(result) : a < b => PlaceOf(result[a]) < PlaceOf(result[b])
        /\ (spc = "returned" /\ ret.how = "list") => ret.data = result

\* C30: in an Arista session of uplinks_stats.py the listing is sent first, then
\* for each candidate in the order of the listing its detail query, its
\* transceiver query and, only if it was read as bridged and up, its switchport
\* query, before anything of the next candidate; the rows stand in the order of
\* their candidates, at most one for each
C30_AristaFixedOrder ==
    /\ AristaCommandsInOrder
    /\ AristaRowsInOrder
    /\ (kind = "arista" /\ script = "uplinks_stats") =>
          \A i \in 1..Len(uplinks) :
             Cmd("switchport", uplinks[i].name) \in SentCmds =>
                i <= Len(probes) /\ ReadAsBridged(i) /\ ReadAsUp(i)

\* two candidates: the first bridged and up, with its switchport query, the
\* second down, without a row
C30_Witness ==
    /\ kind = "arista" /\ script = "uplinks_stats"
    /\ spc = "returned" /\ ret.how = "list"
    /\ Len(uplinks) = 2
    /\ Len(sent) = 6
    /\ sent[4] = Cmd("switchport", uplinks[1].name)
    /\ Len(ret.data) = 1

\* in arista_uplinks_stats.py the switchport query does not wait for the link
SwitchportOnlyIfUpInBothScripts ==
    kind = "arista" =>
        \A i \in 1..Len(uplinks) :
           Cmd("switchport", uplinks[i].name) \in SentCmds =>
              i <= Len(probes) /\ ReadAsUp(i)

\* C8: every row of a returned list names an interface that a device response
\* showed with the marker and showed operationally up.
C8_RowsMarkedAndUp ==
    \A r \in Rows : r.name \in marked /\ r.name \in seenUp

\* C9: a bootstrap listing that was read (an object, the empty one included)
\* and showed no interface with the marker gives the empty list, and no
\* command other than the listings was sent.
C9_NoUplinksEmptyList ==
    (spc = "returned" /\ bootstrap \in {"obj", "empty"} /\ ~anyMarker) =>
        /\ ret = [how |-> "list", data |-> <<>>]
        /\ \A c \in SentCmds : c.cmd \in {"listing", "listing-xml"}

\* the same for a listing that is a non-empty object
NoUplinksEmptyListForObject ==
    (spc = "returned" /\ bootstrap = "obj" /\ ~anyMarker) =>
        /\ ret = [how |-> "list", data |-> <<>>]
        /\ \A c \in SentCmds : c.cmd \in {"listing", "listing-xml"}

====
